---- MODULE Spec2Model ----
(***************************************************************************)
(* Model of the task store of llm-analysis-server: TasksService on top of  *)
(* DatabaseService (sqlite3, one shared connection).  Every awaited        *)
(* statement of the code is one step of a call, so that calls interleave   *)
(* at exactly the round trips of the store.                                *)
(*                                                                         *)
(* Strings that the code trims, formats or parses (titles, descriptions,   *)
(* task codes) are sequences of one-character strings.  The five status    *)
(* values are written in Latin transliteration.                            *)
(***************************************************************************)
EXTENDS Integers, Sequences, FiniteSets, TLC

\* ------------------------------------------------------------------ bounds
\* Largest task id the model allocates (AUTOINCREMENT never reuses an id).
MaxTaskId == 3
\* Largest rowid the model allocates in task_links.
MaxRowid == 3

\* ------------------------------------------------------------------ values
Undef == "undefined"
\* An absent text (title, description) and an absent id list.
UndefText == <<"undefined">>
UndefList == <<-1>>

\* A number that is not finite (NaN, Infinity) in a list of ids.
NaN == -2

IsFinite(num) == num # NaN

TASK_TYPES == {"epic", "task", "subtask"}

StatusOpen == "Otkryta"
StatusNeedsClarification == "Trebuet utochneniya"
StatusReadyForFollowUp == "Gotova k prodolzheniyu"
StatusDecomposed == "Dekompozirovana"
StatusDone == "Vypolnena"

TASK_STATUSES ==
  {StatusOpen, StatusNeedsClarification, StatusReadyForFollowUp,
   StatusDecomposed, StatusDone}

\* Ids that calls may name: every id the store can allocate.
RefIds == 1..MaxTaskId

Calls == {"c1", "c2"}

\* ------------------------------------------------------------------ helpers
Max(S) == CHOOSE x \in S : \A y \in S : y <= x

SeqToSet(s) == {s[i] : i \in 1..Len(s)}

\* ------------------------------------------------------- strings of the code
DigitChar(d) ==
  CASE d = 0 -> "0" [] d = 1 -> "1" [] d = 2 -> "2" [] d = 3 -> "3"
    [] d = 4 -> "4" [] d = 5 -> "5" [] d = 6 -> "6" [] d = 7 -> "7"
    [] d = 8 -> "8" [] d = 9 -> "9"

DigitChars == {"0", "1", "2", "3", "4", "5", "6", "7", "8", "9"}

DigitValue(ch) == CHOOSE d \in 0..9 : DigitChar(d) = ch

\* String(n) of JavaScript for a non-negative integer: decimal, no padding.
RECURSIVE ToDigits(_)
ToDigits(n) ==
  IF n < 10 THEN <<DigitChar(n)>>
  ELSE Append(ToDigits(n \div 10), DigitChar(n % 10))

\* A padStart that pads to one character less.
RECURSIVE PadStartShort(_, _, _)
PadStartShort(s, len, ch) ==
  IF Len(s) >= len - 1 THEN s ELSE PadStartShort(<<ch>> \o s, len, ch)

\* String.prototype.padStart(len, ch).
RECURSIVE PadStart(_, _, _)
PadStart(s, len, ch) ==
  IF Len(s) >= len THEN s ELSE PadStart(<<ch>> \o s, len, ch)

CodePrefix == <<"T", "A", "S", "K", "-">>

\* `TASK-${String(next).padStart(4, '0')}`
FormatCode(n) == CodePrefix \o PadStart(ToDigits(n), 4, "0")

\* SQL: code LIKE 'TASK-%'
LikeTaskPrefix(code) ==
  /\ Len(code) >= Len(CodePrefix)
  /\ SubSeq(code, 1, Len(CodePrefix)) = CodePrefix

\* SQL: instr(code, '-'), the 1-based position of the first '-', 0 if none.
Instr(code, ch) ==
  IF \E i \in 1..Len(code) : code[i] = ch
  THEN CHOOSE i \in 1..Len(code) :
         /\ code[i] = ch
         /\ \A j \in 1..(i - 1) : code[j] # ch
  ELSE 0

\* SQL: substr(code, from), the suffix that starts at position from.
Substr(code, from) == SubSeq(code, from, Len(code))

\* SQL: CAST(text AS INTEGER), the value of the longest prefix of digits.
RECURSIVE CastInteger(_, _)
CastInteger(s, acc) ==
  IF s = <<>> \/ Head(s) \notin DigitChars THEN acc
  ELSE CastInteger(Tail(s), acc * 10 + DigitValue(Head(s)))

CodeNumber(code) == CastInteger(Substr(code, Instr(code, "-") + 1), 0)

\* String.prototype.trim() over the one blank the inputs use.
RECURSIVE TrimStart(_)
TrimStart(s) ==
  IF s # <<>> /\ Head(s) = " " THEN TrimStart(Tail(s)) ELSE s

RECURSIVE TrimEnd(_)
TrimEnd(s) ==
  IF s # <<>> /\ s[Len(s)] = " " THEN TrimEnd(SubSeq(s, 1, Len(s) - 1)) ELSE s

Trim(s) == TrimEnd(TrimStart(s))

\* --------------------------------------------------- TasksService validation
\* parseType: a missing or unknown type is a BadRequestException.
TypeOk(type) == type # Undef /\ type # "" /\ type \in TASK_TYPES

\* A parseStatus that lets every value through.
StatusOkAny(status, hasFallback) == TRUE

\* parseStatus: a missing status is the fallback when there is one.
StatusOk(status, hasFallback) ==
  IF status = Undef \/ status = "" THEN hasFallback
  ELSE status \in TASK_STATUSES

ParseStatus(status) ==
  IF status = Undef \/ status = "" THEN StatusOpen ELSE status

\* A parseTitle / parseDescription that does not trim.
TextOkUntrimmed(text) == text # UndefText /\ text # <<>>

\* parseTitle / parseDescription: blank after trimming is a BadRequestException.
TextOk(text) == text # UndefText /\ Trim(text) # <<>>

\* parseIdArray: Number(item), keep the finite positive ones, Array.from(new Set).
RECURSIVE Dedupe(_, _)
Dedupe(s, seen) ==
  IF s = <<>> THEN <<>>
  ELSE IF Head(s) \in seen THEN Dedupe(Tail(s), seen)
  ELSE <<Head(s)>> \o Dedupe(Tail(s), seen \cup {Head(s)})

parseIdArray(value) ==
  IF value = UndefList THEN <<>>
  ELSE Dedupe(SelectSeq(value, LAMBDA num : num > 0), {})

\* ------------------------------------------------------------------- state
VARIABLES
  tasks,            \* rows of table tasks
  taskSeq,          \* sqlite_sequence of tasks (AUTOINCREMENT)
  task_links,       \* rows of table task_links, each with its rowid
  lastInsertRowid,  \* last_insert_rowid() of the one shared connection
  calls,            \* the calls in flight, one record per caller
  lastDeletedTop,   \* history: the code number of the task deleted last, when
                    \* it held the highest code; 0 otherwise
  artifacts,          \* rows of table artifacts
  artifact_versions,  \* rows of table artifact_versions
  artifact_sources,   \* rows of table artifact_sources
  artifact_exports,   \* rows of table artifact_exports
  sqlite_sequence,    \* AUTOINCREMENT counters of the four artifact tables
  saves,              \* the artifact-store calls in flight, one record per caller
  schema,             \* sqlite_master: the tables and the index of the store
  tasks_old,          \* rows of table tasks_old, the renamed tasks table
  boot                \* the process: position in onModuleInit, connection pragma

\* What onModuleInit works on; no call of a started service touches it.
bootVars == <<schema, tasks_old, boot>>

artVars ==
  <<artifacts, artifact_versions, artifact_sources, artifact_exports,
    sqlite_sequence, saves, bootVars>>

vars ==
  <<tasks, taskSeq, task_links, lastInsertRowid, calls, lastDeletedTop,
    artifacts, artifact_versions, artifact_sources, artifact_exports,
    sqlite_sequence, saves, schema, tasks_old, boot>>

\* last_insert_rowid() is read by createTask, upsertArtifactRecord and
\* addArtifactExport, each right after its own INSERT.  The model keeps the
\* value while such a read is pending and 0 otherwise.
SaveReadPending(ss) == \E c \in Calls : ss[c].pc \in {"artReadBack", "expReadBack"}

RowidReadPending(cs) ==
  (\E c \in Calls : cs[c].pc = "readBack") \/ SaveReadPending(saves)

KeepRowid(value, cs) == IF RowidReadPending(cs) THEN value ELSE 0

\* The edges of the graph: task_links without the rowids.
Links == {<<l.parent_id, l.child_id>> : l \in task_links}

TaskIds == {t.id : t \in tasks}

TaskById(id) == CHOOSE t \in tasks : t.id = id

NoFields ==
  [type |-> Undef, title |-> UndefText, description |-> UndefText, status |-> Undef]

NoSnapshot == [tasks |-> {}, links |-> {}, taken |-> FALSE]

Snapshot(snap) ==
  IF snap THEN [tasks |-> tasks, links |-> Links, taken |-> TRUE] ELSE NoSnapshot

\* A payload of TasksService.create / update with no property set.
NoPayload ==
  [type |-> Undef, title |-> UndefText, description |-> UndefText,
   status |-> Undef, parentIds |-> UndefList, childIds |-> UndefList]

NoTask ==
  [id |-> 0, type |-> Undef, title |-> UndefText, description |-> UndefText,
   status |-> Undef, code |-> <<>>, created_at |-> 0]

NoReturn == [task |-> NoTask, parents |-> {}, children |-> {}]

IdleCall ==
  [op |-> "none", pc |-> "idle", id |-> 0, fields |-> NoFields,
   parents |-> UndefList, children |-> UndefList, next |-> 0, taskId |-> 0,
   rest |-> <<>>, result |-> "none", ret |-> NoReturn, pre |-> NoSnapshot,
   payload |-> NoPayload, rows |-> {}, list |-> {}]

Free(c) == calls[c].pc = "idle"

\* The call ends: its locals are dropped, its arguments and outcome stay.
Finish(call, result, ret) ==
  [call EXCEPT !.pc = "done", !.result = result, !.ret = ret, !.rest = <<>>]

\* ------------------------------------------------------ artifact store
ARTIFACT_KIND_VALUES == {"text", "diagram"}

ARTIFACT_CATEGORY_DB_VALUES ==
  {"use_case_diagram", "er_diagram", "entity_diagram", "user_scenario",
   "functional_requirement", "non_functional_requirement", "acceptance_criteria"}

ARTIFACT_FORMAT_VALUES == {"markdown", "plantuml", "text"}

ARTIFACT_EXPORT_FORMAT_VALUES == {"markdown", "docx", "png", "plantuml"}

\* The alias table of normalizeCategory.
NormalizeMap ==
  ("use_case_diagram" :> "use_case_diagram") @@
  ("USE_CASE_DIAGRAM" :> "use_case_diagram") @@
  ("er_diagram" :> "er_diagram") @@
  ("entity_diagram" :> "er_diagram") @@
  ("ENTITY_DIAGRAM" :> "er_diagram") @@
  ("user_scenario" :> "user_scenario") @@
  ("USER_SCENARIO" :> "user_scenario") @@
  ("functional_requirement" :> "functional_requirement") @@
  ("FUNCTIONAL_REQUIREMENTS" :> "functional_requirement") @@
  ("non_functional_requirement" :> "non_functional_requirement") @@
  ("NON_FUNCTIONAL_REQUIREMENTS" :> "non_functional_requirement") @@
  ("acceptance_criteria" :> "acceptance_criteria") @@
  ("ACCEPTANCE_CRITERIA" :> "acceptance_criteria")

\* Names that every object literal inherits from Object.prototype: `map[name]`
\* is then a function or an object, which is truthy and not nullish.
ObjectPrototypeKeys == {"constructor", "toString", "__proto__"}

\* The inherited member that such a lookup gives.
Inherited == "[inherited]"

\* normalizeCategory: `map[category]`, refused when falsy. Undef stands for the
\* thrown 'unsupported category' error.
normalizeCategory(category) ==
  IF category \in DOMAIN NormalizeMap THEN NormalizeMap[category]
  ELSE IF category \in ObjectPrototypeKeys THEN Inherited
  ELSE Undef

\* The table of toExternalCategory.
ExternalMap ==
  ("use_case_diagram" :> "USE_CASE_DIAGRAM") @@
  ("er_diagram" :> "ENTITY_DIAGRAM") @@
  ("entity_diagram" :> "ENTITY_DIAGRAM") @@
  ("user_scenario" :> "USER_SCENARIO") @@
  ("functional_requirement" :> "FUNCTIONAL_REQUIREMENTS") @@
  ("non_functional_requirement" :> "NON_FUNCTIONAL_REQUIREMENTS") @@
  ("acceptance_criteria" :> "ACCEPTANCE_CRITERIA")

\* toExternalCategory: `map[category] ?? category`.
toExternalCategory(category) ==
  IF category \in DOMAIN ExternalMap THEN ExternalMap[category]
  ELSE IF category \in ObjectPrototypeKeys THEN Inherited
  ELSE category

\* SQL NULL / JS null in a text column.
NullText == <<"null">>

\* An artifactId that is not supplied.
UndefId == -1

NoSequence ==
  [artifacts |-> 0, artifact_versions |-> 0, artifact_sources |-> 0,
   artifact_exports |-> 0]

NoSaveInput ==
  [artifactId |-> UndefId, title |-> UndefText, kind |-> Undef, category |-> Undef,
   format |-> Undef, content |-> UndefText, renderUrl |-> NullText,
   note |-> NullText, sourceTaskIds |-> UndefList, sourceMessageIds |-> UndefList]

NoExportInput ==
  [versionId |-> 0, format |-> Undef, content |-> UndefText, location |-> UndefText]

NoArtifactSnapshot ==
  [artifactId |-> 0, title |-> UndefText, kind |-> Undef, category |-> Undef,
   version |-> 0, format |-> Undef, content |-> UndefText, renderUrl |-> NullText]

\* missing: the ids the error message of a refused attach names.
NoSaveReturn ==
  [snapshot |-> NoArtifactSnapshot, list |-> {}, id |-> 0, missing |-> <<>>]

NoStoreSnapshot ==
  [artifacts |-> {}, versions |-> {}, sources |-> {}, exports |-> {}, taken |-> FALSE]

StoreSnapshot(snap) ==
  IF snap
  THEN [artifacts |-> artifacts, versions |-> artifact_versions,
        sources |-> artifact_sources, exports |-> artifact_exports, taken |-> TRUE]
  ELSE NoStoreSnapshot

\* artifactRow, versionRow and exportRow are history: the ids of the rows the
\* call inserted.
IdleSave ==
  [op |-> "none", pc |-> "idle", input |-> NoSaveInput, export |-> NoExportInput,
   artifactId |-> 0, next |-> 0, taskIds |-> <<>>, messageIds |-> <<>>,
   artifactRow |-> 0, versionRow |-> 0, exportRow |-> 0, result |-> "none",
   ret |-> NoSaveReturn, pre |-> NoStoreSnapshot]

FinishSave(call, result, ret) ==
  [call EXCEPT !.pc = "done", !.result = result, !.ret = ret,
               !.taskIds = <<>>, !.messageIds = <<>>]

\* ------------------------------------------------------ schema of the store
\* A table definition in sqlite_master: whether the table exists, which CHECK
\* its status column carries, and whether it has the title and code columns.
\*   "canonical": the text of TASK_STATUS_CHECK, values joined by "','"
\*   "literal":   the five values written out and joined by "', '"
\*   "legacy":    an earlier set of status labels
\*   "none":      no CHECK on status
NoTable == [exists |-> FALSE, check |-> "none", title |-> FALSE, code |-> FALSE]

\* CREATE TABLE tasks (... status TEXT NOT NULL CHECK (${TASK_STATUS_CHECK}),
\* code TEXT UNIQUE NOT NULL ...)
CanonicalTable == [exists |-> TRUE, check |-> "canonical", title |-> TRUE, code |-> TRUE]

NoSchema ==
  [tasks |-> NoTable, tasks_old |-> NoTable, index |-> "none", messages |-> FALSE,
   task_links |-> FALSE, artifactTables |-> FALSE, artifactIndexes |-> FALSE]

\* The store after onModuleInit on an empty file.  UNIQUE on the code column of
\* the created table is what idx_tasks_code then repeats.
ReadySchema ==
  [tasks |-> CanonicalTable, tasks_old |-> NoTable, index |-> "tasks",
   messages |-> TRUE, task_links |-> TRUE, artifactTables |-> TRUE,
   artifactIndexes |-> TRUE]

NoStore == [schema |-> NoSchema, tasks |-> {}, tasks_old |-> {}, taskSeq |-> 0]

\* origin, before, atStart, crashedAt, crashes, readyBefore are history.
DownBoot ==
  [pc |-> "down", foreign_keys |-> FALSE, todo |-> <<>>, idx |-> 0, origin |-> {},
   before |-> {}, migrated |-> FALSE, atStart |-> NoStore, crashedAt |-> "none",
   crashes |-> 0, readyBefore |-> FALSE]

ReadyBoot == [DownBoot EXCEPT !.pc = "ready", !.foreign_keys = TRUE]

Init ==
  /\ schema = ReadySchema
  /\ tasks_old = {}
  /\ boot = ReadyBoot
  /\ tasks = {}
  /\ taskSeq = 0
  /\ task_links = {}
  /\ lastInsertRowid = 0
  /\ calls = [c \in Calls |-> IdleCall]
  /\ lastDeletedTop = 0
  /\ artifacts = {}
  /\ artifact_versions = {}
  /\ artifact_sources = {}
  /\ artifact_exports = {}
  /\ sqlite_sequence = NoSequence
  /\ saves = [c \in Calls |-> IdleSave]

\* ------------------------------------------------- setTaskRelations control
\* `if (parentId === taskId) continue`: self references take no round trip.
RECURSIVE SkipSelf(_, _)
SkipSelf(list, taskId) ==
  IF list # <<>> /\ Head(list) = taskId THEN SkipSelf(Tail(list), taskId)
  ELSE list

\* Where a call goes when setTaskRelations returns.
RelEnd(call) ==
  IF call.op = "setRelations" THEN Finish(call, "ok", NoReturn)
  ELSE [call EXCEPT !.pc = "getTask", !.rest = <<>>]

\* A setTaskRelations that rewrites the children whether or not a list is given.
RelChildrenAlways(call) == [call EXCEPT !.pc = "relDelChildren", !.rest = <<>>]

\* `if (children)`: an empty array is truthy, undefined is not.
RelChildren(call) ==
  IF call.children # UndefList THEN [call EXCEPT !.pc = "relDelChildren", !.rest = <<>>]
  ELSE RelEnd(call)

\* `if (parents)` on entry of setTaskRelations(taskId, parents, children).
RelEnter(call, taskId) ==
  LET c1 == [call EXCEPT !.taskId = taskId] IN
  IF call.parents # UndefList THEN [c1 EXCEPT !.pc = "relDelParents"]
  ELSE RelChildren(c1)

\* INSERT OR IGNORE INTO task_links: a new row gets rowid max+1; a pair that is
\* already there is left alone (PRIMARY KEY (parent_id, child_id)).
NextLinkRowid == Max({l.rowid : l \in task_links} \cup {0}) + 1

\* A plain INSERT into a table without the primary key.
InsertAlways(rows, parent, child, rowid) ==
  rows \cup {[parent_id |-> parent, child_id |-> child, rowid |-> rowid]}

\* An insert that refuses the edge whose reverse is in the table.
InsertUnlessReverse(rows, parent, child, rowid) ==
  IF <<parent, child>> \in {<<l.parent_id, l.child_id>> : l \in rows}
     \/ <<child, parent>> \in {<<l.parent_id, l.child_id>> : l \in rows}
  THEN rows
  ELSE rows \cup {[parent_id |-> parent, child_id |-> child, rowid |-> rowid]}

InsertOrIgnore(rows, parent, child, rowid) ==
  IF <<parent, child>> \in {<<l.parent_id, l.child_id>> : l \in rows} THEN rows
  ELSE rows \cup {[parent_id |-> parent, child_id |-> child, rowid |-> rowid]}

LinkInsertAllowed(parent, child) ==
  <<parent, child>> \in Links \/ NextLinkRowid <= MaxRowid

\* ------------------------------------------------------ the steps of a call
\* TasksService.create up to its first await: the payload is parsed.
StartCreate(c, payload, snap) ==
  /\ Free(c)
  /\ LET ok == /\ TypeOk(payload.type)
               /\ TextOk(payload.title)
               /\ TextOk(payload.description)
               /\ StatusOk(payload.status, TRUE)
         parentIds == parseIdArray(payload.parentIds)
         childIds == parseIdArray(payload.childIds)
         base == [IdleCall EXCEPT !.op = "create", !.pre = Snapshot(snap),
                                  !.payload = payload]
     IN calls' = [calls EXCEPT ![c] =
          IF ~ok THEN Finish(base, "BadRequest", NoReturn)
          ELSE [base EXCEPT
                  !.fields = [type |-> payload.type,
                              title |-> Trim(payload.title),
                              description |-> Trim(payload.description),
                              status |-> ParseStatus(payload.status)],
                  !.parents = parentIds,
                  !.children = childIds,
                  !.pc = IF parentIds \o childIds = <<>> THEN "readMax"
                         ELSE "ensureIds"]]
  /\ UNCHANGED <<tasks, taskSeq, task_links, lastInsertRowid, lastDeletedTop>>
  /\ UNCHANGED artVars

\* ensureIdsExist: one SELECT ... WHERE id IN (...); a missing id is a
\* BadRequestException.  Then create goes on to createTask, update to updateTask.
EnsureIdsExist(c) ==
  LET call == calls[c]
      ids == (IF call.parents = UndefList THEN <<>> ELSE call.parents)
             \o (IF call.children = UndefList THEN <<>> ELSE call.children)
      missing == SeqToSet(ids) \ TaskIds
  IN
  /\ call.pc = "ensureIds"
  /\ calls' = [calls EXCEPT ![c] =
       IF missing # {} THEN Finish(call, "BadRequest", NoReturn)
       ELSE IF call.op = "create" THEN [call EXCEPT !.pc = "readMax"]
       ELSE IF call.fields = NoFields THEN Finish(call, "NoFieldsToUpdate", NoReturn)
       ELSE [call EXCEPT !.pc = "update"]]
  /\ UNCHANGED <<tasks, taskSeq, task_links, lastInsertRowid, lastDeletedTop>>
  /\ UNCHANGED artVars

\* createTask, first statement: SELECT COALESCE(MAX(CAST(substr(code,
\* instr(code, '-') + 1) AS INTEGER)), 0) + 1 FROM tasks WHERE code LIKE 'TASK-%'
MaxCodeNumber(rows) ==
  Max({CodeNumber(t.code) : t \in {r \in rows : LikeTaskPrefix(r.code)}} \cup {0})

\* An allocation that forgets the + 1.
NextCodeNumberSame(rows) == MaxCodeNumber(rows)

\* An allocation from a persistent counter (the AUTOINCREMENT sequence).
NextCodeNumberCounter(rows) == taskSeq + 1

NextCodeNumber(rows) == MaxCodeNumber(rows) + 1

CreateReadMax(c) ==
  LET call == calls[c] IN
  /\ call.pc = "readMax"
  /\ calls' = [calls EXCEPT ![c] =
       [call EXCEPT !.pc = "insert", !.next = NextCodeNumber(tasks)]]
  /\ UNCHANGED <<tasks, taskSeq, task_links, lastInsertRowid, lastDeletedTop>>
  /\ UNCHANGED artVars

\* A code column without the UNIQUE constraint.
CodeTakenNever(rows, code) == FALSE

\* code TEXT UNIQUE NOT NULL: the INSERT fails when the code is taken.
CodeTaken(rows, code) == \E t \in rows : t.code = code

\* createTask, second statement: INSERT INTO tasks (..., code).  created_at is
\* DEFAULT CURRENT_TIMESTAMP: the model records the ordinal of the INSERT.
CreateInsert(c) ==
  LET call == calls[c]
      code == FormatCode(call.next)
      id == taskSeq + 1
  IN
  /\ call.pc = "insert"
  /\ IF CodeTaken(tasks, code)
     THEN /\ calls' = [calls EXCEPT ![c] = Finish(call, "SQLITE_CONSTRAINT", NoReturn)]
          /\ UNCHANGED <<tasks, taskSeq, task_links, lastInsertRowid, lastDeletedTop>>
     ELSE /\ id <= MaxTaskId
          /\ tasks' = tasks \cup
               {[id |-> id, type |-> call.fields.type, title |-> call.fields.title,
                 description |-> call.fields.description,
                 status |-> call.fields.status, code |-> code,
                 created_at |-> id]}
          /\ taskSeq' = id
          /\ lastInsertRowid' = id
          /\ calls' = [calls EXCEPT ![c] = [call EXCEPT !.pc = "readBack"]]
          /\ lastDeletedTop' = IF call.pre.taken THEN 0 ELSE lastDeletedTop
          /\ UNCHANGED task_links
  /\ UNCHANGED artVars

\* createTask, third statement: SELECT * FROM tasks WHERE id = last_insert_rowid();
\* then TasksService.create calls setTaskRelations(created.id, parentIds, childIds).
CreateReadBack(c) ==
  LET call == calls[c] IN
  /\ call.pc = "readBack"
  /\ calls' = [calls EXCEPT ![c] =
       IF lastInsertRowid \in TaskIds
       THEN RelEnter(call, lastInsertRowid)
       ELSE Finish(call, "ReadBackFailed", NoReturn)]
  /\ lastInsertRowid' = KeepRowid(lastInsertRowid, calls')
  /\ UNCHANGED <<tasks, taskSeq, task_links, lastDeletedTop>>
  /\ UNCHANGED artVars

\* TasksService.update up to its first await: the supplied fields are parsed,
\* an empty payload is rejected, the id lists are parsed.
StartUpdate(c, id, payload, snap) ==
  /\ Free(c)
  /\ LET ok == /\ payload.type # Undef => TypeOk(payload.type)
               /\ payload.title # UndefText => TextOk(payload.title)
               /\ payload.description # UndefText => TextOk(payload.description)
               /\ payload.status # Undef => StatusOk(payload.status, FALSE)
         updates ==
           [type |-> payload.type,
            title |-> IF payload.title = UndefText THEN UndefText
                      ELSE Trim(payload.title),
            description |-> IF payload.description = UndefText THEN UndefText
                            ELSE Trim(payload.description),
            status |-> payload.status]
         empty == /\ updates = NoFields
                  /\ payload.parentIds = UndefList
                  /\ payload.childIds = UndefList
         parentIds == IF payload.parentIds # UndefList
                      THEN parseIdArray(payload.parentIds) ELSE UndefList
         childIds == IF payload.childIds # UndefList
                     THEN parseIdArray(payload.childIds) ELSE UndefList
         ids == (IF parentIds = UndefList THEN <<>> ELSE parentIds)
                \o (IF childIds = UndefList THEN <<>> ELSE childIds)
         base == [IdleCall EXCEPT !.op = "update", !.id = id,
                                  !.pre = Snapshot(snap), !.payload = payload]
         started == [base EXCEPT !.fields = updates, !.parents = parentIds,
                                 !.children = childIds]
     IN calls' = [calls EXCEPT ![c] =
          IF ~ok \/ empty THEN Finish(base, "BadRequest", NoReturn)
          ELSE IF ids # <<>> THEN [started EXCEPT !.pc = "ensureIds"]
          ELSE IF updates = NoFields
               THEN Finish(started, "NoFieldsToUpdate", NoReturn)
          ELSE [started EXCEPT !.pc = "update"]]
  /\ UNCHANGED <<tasks, taskSeq, task_links, lastInsertRowid, lastDeletedTop>>
  /\ UNCHANGED artVars

\* `if (updates.type) sets.push('type = ?')`: only truthy values are written.
Truthy(v) == v # Undef /\ v # ""
TruthyText(v) == v # UndefText /\ v # <<>>

\* An UPDATE that writes the initial status when none is supplied.
ApplyUpdatesResetStatus(row, updates) ==
  [row EXCEPT
     !.type = IF Truthy(updates.type) THEN updates.type ELSE @,
     !.description = IF TruthyText(updates.description) THEN updates.description ELSE @,
     !.title = IF TruthyText(updates.title) THEN updates.title ELSE @,
     !.status = IF Truthy(updates.status) THEN updates.status ELSE StatusOpen]

ApplyUpdates(row, updates) ==
  [row EXCEPT
     !.type = IF Truthy(updates.type) THEN updates.type ELSE @,
     !.description = IF TruthyText(updates.description) THEN updates.description ELSE @,
     !.title = IF TruthyText(updates.title) THEN updates.title ELSE @,
     !.status = IF Truthy(updates.status) THEN updates.status ELSE @]

\* updateTask, first statement: UPDATE tasks SET ... WHERE id = ?
UpdateRun(c) ==
  LET call == calls[c] IN
  /\ call.pc = "update"
  /\ tasks' = {IF t.id = call.id THEN ApplyUpdates(t, call.fields) ELSE t : t \in tasks}
  /\ calls' = [calls EXCEPT ![c] = [call EXCEPT !.pc = "updateSelect"]]
  /\ UNCHANGED <<taskSeq, task_links, lastInsertRowid, lastDeletedTop>>
  /\ UNCHANGED artVars

\* updateTask, second statement: SELECT * FROM tasks WHERE id = ?; no row is
\* 'Zadacha ne naidena', which TasksService.update turns into NotFoundException.
\* Then TasksService.update calls setTaskRelations(id, parentIds, childIds).
UpdateSelect(c) ==
  LET call == calls[c] IN
  /\ call.pc = "updateSelect"
  /\ calls' = [calls EXCEPT ![c] =
       IF call.id \in TaskIds THEN RelEnter(call, call.id)
       ELSE Finish(call, "NotFound", NoReturn)]
  /\ UNCHANGED <<tasks, taskSeq, task_links, lastInsertRowid, lastDeletedTop>>
  /\ UNCHANGED artVars

\* DatabaseService.setTaskRelations called on its own.
StartSetRelations(c, taskId, parents, children, snap) ==
  /\ Free(c)
  /\ calls' = [calls EXCEPT ![c] =
       RelEnter([IdleCall EXCEPT !.op = "setRelations", !.id = taskId,
                                 !.parents = parents, !.children = children,
                                 !.pre = Snapshot(snap)], taskId)]
  /\ UNCHANGED <<tasks, taskSeq, task_links, lastInsertRowid, lastDeletedTop>>
  /\ UNCHANGED artVars

\* A setTaskRelations that merges: nothing is deleted first.
DeleteIncomingNone(rows, taskId) == rows

\* A delete of every edge that touches the task, in either direction.
DeleteIncomingTouching(rows, taskId) ==
  {l \in rows : l.child_id # taskId /\ l.parent_id # taskId}

\* DELETE FROM task_links WHERE child_id = ?
DeleteIncoming(rows, taskId) == {l \in rows : l.child_id # taskId}

RelDeleteParents(c) ==
  LET call == calls[c]
      rest == SkipSelf(call.parents, call.taskId)
  IN
  /\ call.pc = "relDelParents"
  /\ task_links' = DeleteIncoming(task_links, call.taskId)
  /\ calls' = [calls EXCEPT ![c] =
       IF rest = <<>> THEN RelChildren(call)
       ELSE [call EXCEPT !.pc = "relInsParent", !.rest = rest]]
  /\ UNCHANGED <<tasks, taskSeq, lastInsertRowid, lastDeletedTop>>
  /\ UNCHANGED artVars

\* INSERT OR IGNORE INTO task_links (parent_id, child_id) VALUES (parentId, taskId)
RelInsertParent(c) ==
  LET call == calls[c]
      parentId == Head(call.rest)
      rest == SkipSelf(Tail(call.rest), call.taskId)
      rows == InsertOrIgnore(task_links, parentId, call.taskId, NextLinkRowid)
  IN
  /\ call.pc = "relInsParent"
  /\ LinkInsertAllowed(parentId, call.taskId)
  /\ task_links' = rows
  /\ lastInsertRowid' =
       KeepRowid(IF rows = task_links THEN lastInsertRowid ELSE NextLinkRowid, calls)
  /\ calls' = [calls EXCEPT ![c] =
       IF rest = <<>> THEN RelChildren(call)
       ELSE [call EXCEPT !.rest = rest]]
  /\ UNCHANGED <<tasks, taskSeq, lastDeletedTop>>
  /\ UNCHANGED artVars

\* DELETE FROM task_links WHERE parent_id = ?
DeleteOutgoing(rows, taskId) == {l \in rows : l.parent_id # taskId}

RelDeleteChildren(c) ==
  LET call == calls[c]
      rest == SkipSelf(call.children, call.taskId)
  IN
  /\ call.pc = "relDelChildren"
  /\ task_links' = DeleteOutgoing(task_links, call.taskId)
  /\ calls' = [calls EXCEPT ![c] =
       IF rest = <<>> THEN RelEnd(call)
       ELSE [call EXCEPT !.pc = "relInsChild", !.rest = rest]]
  /\ UNCHANGED <<tasks, taskSeq, lastInsertRowid, lastDeletedTop>>
  /\ UNCHANGED artVars

\* INSERT OR IGNORE INTO task_links (parent_id, child_id) VALUES (taskId, childId)
RelInsertChild(c) ==
  LET call == calls[c]
      childId == Head(call.rest)
      rest == SkipSelf(Tail(call.rest), call.taskId)
      rows == InsertOrIgnore(task_links, call.taskId, childId, NextLinkRowid)
  IN
  /\ call.pc = "relInsChild"
  /\ LinkInsertAllowed(call.taskId, childId)
  /\ task_links' = rows
  /\ lastInsertRowid' =
       KeepRowid(IF rows = task_links THEN lastInsertRowid ELSE NextLinkRowid, calls)
  /\ calls' = [calls EXCEPT ![c] =
       IF rest = <<>> THEN RelEnd(call)
       ELSE [call EXCEPT !.rest = rest]]
  /\ UNCHANGED <<tasks, taskSeq, lastDeletedTop>>
  /\ UNCHANGED artVars

\* { id, code, title } of a task row.
Summary(t) == [id |-> t.id, code |-> t.code, title |-> t.title]

\* SELECT t.id, t.code, t.title FROM tasks t INNER JOIN task_links l
\*   ON t.id = l.parent_id WHERE l.child_id = ?
ParentsOf(id) ==
  {Summary(t) : t \in {r \in tasks : <<r.id, id>> \in Links}}

\* ... ON t.id = l.child_id WHERE l.parent_id = ?
ChildrenOf(id) ==
  {Summary(t) : t \in {r \in tasks : <<id, r.id>> \in Links}}

\* getTaskWithRelations, first statement: SELECT * FROM tasks WHERE id = ?
\* No row is 'Zadacha ne naidena': NotFoundException from update, the bare
\* Error from create (which does not catch it).
GetTask(c) ==
  LET call == calls[c] IN
  /\ call.pc = "getTask"
  /\ calls' = [calls EXCEPT ![c] =
       IF call.taskId \in TaskIds
       THEN [call EXCEPT !.pc = "getParents",
                         !.ret = [task |-> TaskById(call.taskId),
                                  parents |-> {}, children |-> {}]]
       ELSE Finish(call, IF call.op = "update" THEN "NotFound" ELSE "TaskNotFoundError",
                   NoReturn)]
  /\ UNCHANGED <<tasks, taskSeq, task_links, lastInsertRowid, lastDeletedTop>>
  /\ UNCHANGED artVars

GetParents(c) ==
  LET call == calls[c] IN
  /\ call.pc = "getParents"
  /\ calls' = [calls EXCEPT ![c] =
       [call EXCEPT !.pc = "getChildren", !.ret.parents = ParentsOf(call.taskId)]]
  /\ UNCHANGED <<tasks, taskSeq, task_links, lastInsertRowid, lastDeletedTop>>
  /\ UNCHANGED artVars

GetChildren(c) ==
  LET call == calls[c] IN
  /\ call.pc = "getChildren"
  /\ calls' = [calls EXCEPT ![c] =
       Finish(call, "ok", [call.ret EXCEPT !.children = ChildrenOf(call.taskId)])]
  /\ UNCHANGED <<tasks, taskSeq, task_links, lastInsertRowid, lastDeletedTop>>
  /\ UNCHANGED artVars

\* TasksService.delete -> deleteTask.
StartDelete(c, id, snap) ==
  /\ Free(c)
  /\ calls' = [calls EXCEPT ![c] =
       [IdleCall EXCEPT !.op = "delete", !.id = id, !.pc = "deleteSelect",
                        !.pre = Snapshot(snap)]]
  /\ UNCHANGED <<tasks, taskSeq, task_links, lastInsertRowid, lastDeletedTop>>
  /\ UNCHANGED artVars

\* deleteTask, first statement: SELECT id FROM tasks WHERE id = ?
DeleteSelect(c) ==
  LET call == calls[c] IN
  /\ call.pc = "deleteSelect"
  /\ calls' = [calls EXCEPT ![c] =
       IF call.id \in TaskIds THEN [call EXCEPT !.pc = "deleteLinks"]
       ELSE Finish(call, "NotFound", NoReturn)]
  /\ UNCHANGED <<tasks, taskSeq, task_links, lastInsertRowid, lastDeletedTop>>
  /\ UNCHANGED artVars

\* A cascade that forgets the edges in which the task is the child.
DeleteTouchingParentOnly(rows, id) == {l \in rows : l.parent_id # id}

\* DELETE FROM task_links WHERE parent_id = ? OR child_id = ?
DeleteTouching(rows, id) == {l \in rows : l.parent_id # id /\ l.child_id # id}

DeleteLinks(c) ==
  LET call == calls[c] IN
  /\ call.pc = "deleteLinks"
  /\ task_links' = DeleteTouching(task_links, call.id)
  /\ calls' = [calls EXCEPT ![c] = [call EXCEPT !.pc = "deleteRow"]]
  /\ UNCHANGED <<tasks, taskSeq, lastInsertRowid, lastDeletedTop>>
  /\ UNCHANGED artVars

\* DELETE FROM tasks WHERE id = ?
DeleteRow(c) ==
  LET call == calls[c] IN
  /\ call.pc = "deleteRow"
  /\ tasks' = {t \in tasks : t.id # call.id}
  /\ calls' = [calls EXCEPT ![c] = Finish(call, "ok", NoReturn)]
  /\ lastDeletedTop' =
       IF ~call.pre.taken THEN lastDeletedTop
       ELSE IF \E t \in tasks : t.id = call.id /\ CodeNumber(t.code) = MaxCodeNumber(tasks)
            THEN MaxCodeNumber(tasks) ELSE 0
  /\ UNCHANGED <<taskSeq, task_links, lastInsertRowid>>
  /\ UNCHANGED artVars

\* The caller takes the outcome of its call (the promise settles); it may then
\* make its next call.
Return(c) ==
  /\ calls[c].pc = "done"
  /\ calls' = [calls EXCEPT ![c] = IdleCall]
  /\ UNCHANGED <<tasks, taskSeq, task_links, lastInsertRowid, lastDeletedTop>>
  /\ UNCHANGED artVars

\* ------------------------------------------------------------------ inputs
\* Longest id list a call passes.
MaxList == 2

ListLen(list) == IF list = UndefList THEN 0 ELSE Len(list)

\* The id lists of the inputs: absent, empty, and every list over RefIds up to
\* MaxList entries, repeated ids included.
IdLists == {UndefList} \cup UNION {[1..n -> RefIds] : n \in 0..MaxList}

\* (parents, children) of one call: at most MaxList ids in all.
RelArgs ==
  {pc \in IdLists \X IdLists : ListLen(pc[1]) + ListLen(pc[2]) <= MaxList}

\* (parentIds, childIds) of one TasksService call: at most one id each way.
ServiceRelArgs == {pc \in RelArgs : ListLen(pc[1]) <= 1 /\ ListLen(pc[2]) <= 1}

ValidCreate ==
  [type |-> "epic", title |-> <<" ", "A">>, description |-> <<"d">>,
   status |-> Undef, parentIds |-> UndefList, childIds |-> UndefList]

\* Payloads of TasksService.create: a valid one with every RelArgs, one with a
\* non-positive id in a list, and one invalid in each field.
CreatePayloads ==
  {[ValidCreate EXCEPT !.parentIds = pc[1], !.childIds = pc[2]] : pc \in ServiceRelArgs}
  \cup {[ValidCreate EXCEPT !.parentIds = <<0, 1, 1>>],
        [ValidCreate EXCEPT !.type = "bogus"],
        [ValidCreate EXCEPT !.type = Undef],
        [ValidCreate EXCEPT !.title = <<" ">>],
        [ValidCreate EXCEPT !.description = UndefText],
        [ValidCreate EXCEPT !.status = "bogus"]}

EmptyUpdate ==
  [type |-> Undef, title |-> UndefText, description |-> UndefText,
   status |-> Undef, parentIds |-> UndefList, childIds |-> UndefList]

FullUpdate ==
  [EmptyUpdate EXCEPT !.type = "task", !.title = <<"B", " ">>,
                      !.description = <<"e">>, !.status = StatusDone]

\* Payloads of TasksService.update: no field or all four fields, each with every
\* RelArgs; and one invalid in each field.
UpdatePayloads ==
  {[u EXCEPT !.parentIds = pc[1], !.childIds = pc[2]] :
     u \in {EmptyUpdate, FullUpdate}, pc \in ServiceRelArgs}
  \cup {[EmptyUpdate EXCEPT !.type = "bogus"],
        [EmptyUpdate EXCEPT !.title = <<" ">>],
        [EmptyUpdate EXCEPT !.description = <<>>],
        [EmptyUpdate EXCEPT !.status = ""]}

\* ----------------------------------------------------------- specifications
Step(c) ==
  \/ EnsureIdsExist(c)
  \/ CreateReadMax(c)
  \/ CreateInsert(c)
  \/ CreateReadBack(c)
  \/ UpdateRun(c)
  \/ UpdateSelect(c)
  \/ RelDeleteParents(c)
  \/ RelInsertParent(c)
  \/ RelDeleteChildren(c)
  \/ RelInsertChild(c)
  \/ GetTask(c)
  \/ GetParents(c)
  \/ GetChildren(c)
  \/ DeleteSelect(c)
  \/ DeleteLinks(c)
  \/ DeleteRow(c)
  \/ Return(c)

\* TasksService calls made one after another by one caller: a call starts when
\* the previous one has returned.
SeqCaller == "c1"

SeqStartCreate == \E p \in CreatePayloads : StartCreate(SeqCaller, p, TRUE)
SeqStartUpdate ==
  \E id \in RefIds, p \in UpdatePayloads : StartUpdate(SeqCaller, id, p, TRUE)
SeqStartDelete == \E id \in RefIds : StartDelete(SeqCaller, id, TRUE)

NextSeq ==
  \/ SeqStartCreate
  \/ SeqStartUpdate
  \/ SeqStartDelete
  \/ Step(SeqCaller)

SpecSeq == Init /\ [][NextSeq]_vars

\* The DatabaseService relation calls made one after another by one caller.
SeqStartSetRelations ==
  \E id \in RefIds, pc \in RelArgs :
    StartSetRelations(SeqCaller, id, pc[1], pc[2], TRUE)

RelStep(c) ==
  \/ RelDeleteParents(c)
  \/ RelInsertParent(c)
  \/ RelDeleteChildren(c)
  \/ RelInsertChild(c)
  \/ Return(c)

NextRel ==
  \/ SeqStartSetRelations
  \/ RelStep(SeqCaller)

SpecRel == Init /\ [][NextRel]_vars

\* Concurrent callers of TasksService.create (no relations) and delete: the
\* round trips of the calls interleave in any order.
ConcStartCreate(c) == StartCreate(c, ValidCreate, FALSE)
ConcStartDelete(c) == \E id \in RefIds : StartDelete(c, id, FALSE)

CreateStep(c) ==
  \/ CreateReadMax(c)
  \/ CreateInsert(c)
  \/ CreateReadBack(c)
  \/ RelDeleteParents(c)
  \/ RelDeleteChildren(c)
  \/ GetTask(c)
  \/ GetParents(c)
  \/ GetChildren(c)
  \/ Return(c)

DeleteStep(c) ==
  \/ DeleteSelect(c)
  \/ DeleteLinks(c)
  \/ DeleteRow(c)

NextCodes ==
  \E c \in Calls :
    \/ ConcStartCreate(c)
    \/ ConcStartDelete(c)
    \/ CreateStep(c)
    \/ DeleteStep(c)

SpecCodes == Init /\ [][NextCodes]_vars

\* Concurrent callers of TasksService.create only.
NextRace ==
  \E c \in Calls :
    \/ ConcStartCreate(c)
    \/ CreateStep(c)

SpecRace == Init /\ [][NextRace]_vars

\* Concurrent callers of DatabaseService.setTaskRelations on two tasks, one
\* direction per call, lists with repeated ids and self references included.
LinkIds == {1, 2}

LinkLists == UNION {[1..n -> LinkIds] : n \in 0..MaxList}

ConcStartSetRelations(c) ==
  \E id \in LinkIds, list \in LinkLists :
    \/ StartSetRelations(c, id, list, UndefList, FALSE)
    \/ StartSetRelations(c, id, UndefList, list, FALSE)

NextLinks ==
  \E c \in Calls :
    \/ ConcStartSetRelations(c)
    \/ RelStep(c)

SpecLinks == Init /\ [][NextLinks]_vars

\* ------------------------------------------------------------------ claims
\* A code of the allocation scheme: TASK- and at least four decimal digits.
WellFormedCode(code) ==
  /\ LikeTaskPrefix(code)
  /\ Len(code) >= Len(CodePrefix) + 4
  /\ \A i \in (Len(CodePrefix) + 1)..Len(code) : code[i] \in DigitChars

\* C1: in every reachable state, also under interleaved creates and deletes, no
\* two task rows carry the same code and every code is TASK-<at least 4 digits>.
C1_CodesUniqueAndWellFormed ==
  /\ \A t1 \in tasks : \A t2 \in tasks : t1.code = t2.code => t1.id = t2.id
  /\ \A t \in tasks : WellFormedCode(t.code)

\* C1 witness: two tasks exist while a create that computed a taken code has
\* been refused by the store.
C1_Witness ==
  /\ Cardinality(tasks) >= 2
  /\ \E c \in Calls : calls[c].op = "create" /\ calls[c].result = "SQLITE_CONSTRAINT"

\* The code TASK-000<n> written out, for n below 10.
CodeLiteral(n) == <<"T", "A", "S", "K", "-", "0", "0", "0", DigitChar(n)>>

\* C2: creates made one after another with no deletion (every allocated id is
\* still there) give the n-th task the code TASK-<n padded to 4 digits>, so the
\* codes increase with the creation order; the create returns that row.
C2_SequentialCodes ==
  TaskIds = 1..taskSeq =>
    /\ \A t \in tasks : t.code = CodeLiteral(t.id)
    /\ \A t1 \in tasks : \A t2 \in tasks :
         t1.id < t2.id => CodeNumber(t1.code) < CodeNumber(t2.code)
    /\ LET call == calls[SeqCaller] IN
       (call.op = "create" /\ call.pc = "done" /\ call.result = "ok") =>
         /\ call.ret.task.id = taskSeq
         /\ call.ret.task.code = CodeLiteral(taskSeq)

\* C2 witness: the second create in a row has returned TASK-0002.
C2_Witness ==
  /\ TaskIds = {1, 2}
  /\ calls[SeqCaller].op = "create"
  /\ calls[SeqCaller].pc = "done"
  /\ calls[SeqCaller].ret.task.code = <<"T", "A", "S", "K", "-", "0", "0", "0", "2">>
  /\ \E t \in tasks : t.code = <<"T", "A", "S", "K", "-", "0", "0", "0", "1">>

\* The rows an INSERT INTO tasks adds in a step.
NewRows == {t \in tasks' : t.id \notin TaskIds}

\* C3 as stated: the create that follows the deletion of the holder of the
\* highest code reuses the deleted suffix, and a new code is never at or below
\* the highest existing one.
C3_ReusesDeletedTop ==
  [][\A t \in NewRows :
       /\ lastDeletedTop # 0 => CodeNumber(t.code) = lastDeletedTop
       /\ CodeNumber(t.code) > MaxCodeNumber(tasks)]_vars

\* C3 amended: a create allocates max(existing suffix) + 1 (1 on an empty
\* table), whatever was allocated before; after the deletion of the holder of
\* the highest code it reuses the deleted suffix exactly when the highest
\* remaining suffix is one less.
C3_MaxPlusOne ==
  [][\A t \in NewRows :
       /\ CodeNumber(t.code) = MaxCodeNumber(tasks) + 1
       /\ lastDeletedTop # 0 =>
            (CodeNumber(t.code) = lastDeletedTop
               <=> MaxCodeNumber(tasks) = lastDeletedTop - 1)]_vars

\* C3 witness: create, delete, create has returned TASK-0001 for the task of id 2.
C3_Witness ==
  /\ calls[SeqCaller].op = "create"
  /\ calls[SeqCaller].pc = "done"
  /\ calls[SeqCaller].ret.task.id = 2
  /\ calls[SeqCaller].ret.task.code = <<"T", "A", "S", "K", "-", "0", "0", "0", "1">>

\* createTask has run its INSERT (successfully or not).
PastInsert(call) == call.op = "create" /\ call.next > 0 /\ call.pc # "insert"

Inserted(call) == PastInsert(call) /\ call.result # "SQLITE_CONSTRAINT"

Incoming(links, id) == {e \in links : e[2] = id}

Outgoing(links, id) == {e \in links : e[1] = id}

\* C5: setTaskRelations replaces: when it has returned, the incoming edges of
\* taskId are exactly the listed parents other than taskId, whatever was there
\* before, and likewise the outgoing edges for a children list.
C5_ReplaceNotMerge ==
  LET call == calls[SeqCaller] IN
  (call.op = "setRelations" /\ call.pc = "done") =>
    /\ call.parents # UndefList =>
         Incoming(Links, call.id) =
           {<<p, call.id>> : p \in SeqToSet(call.parents) \ {call.id}}
    /\ call.children # UndefList =>
         Outgoing(Links, call.id) =
           {<<call.id, ch>> : ch \in SeqToSet(call.children) \ {call.id}}

\* C5 witness: task 1 had the parents 2 and 3; parents = [3] has left the one
\* edge from 3.
C5_Witness ==
  LET call == calls[SeqCaller] IN
  /\ call.op = "setRelations"
  /\ call.pc = "done"
  /\ call.id = 1
  /\ call.parents = <<3>>
  /\ Incoming(call.pre.links, 1) = {<<2, 1>>, <<3, 1>>}
  /\ Incoming(Links, 1) = {<<3, 1>>}

\* C6: in every reachable state, also under interleaved relation calls, the
\* edge table holds no self loop and no pair twice.
C6_NoSelfLoopNoDuplicate ==
  /\ \A l \in task_links : l.parent_id # l.child_id
  /\ \A l1 \in task_links : \A l2 \in task_links :
       (l1.parent_id = l2.parent_id /\ l1.child_id = l2.child_id) => l1 = l2

\* C6 witness: children = [1] on task 1 has left no outgoing edge of 1, and
\* children = [1, 1] on task 2 has left the one edge (2, 1).
C6_Witness ==
  /\ calls["c1"].op = "setRelations" /\ calls["c1"].pc = "done"
  /\ calls["c1"].id = 1 /\ calls["c1"].children = <<1>>
  /\ calls["c2"].op = "setRelations" /\ calls["c2"].pc = "done"
  /\ calls["c2"].id = 2 /\ calls["c2"].children = <<1, 1>>
  /\ Links = {<<2, 1>>}
  /\ Cardinality(task_links) = 1

\* C7: the two directions are independent: an undefined list leaves the edges of
\* its direction as they were, an empty list removes them all.
C7_DirectionsIndependent ==
  LET call == calls[SeqCaller] IN
  (call.op = "setRelations" /\ call.pc = "done") =>
    /\ call.parents = UndefList =>
         Incoming(Links, call.id) = Incoming(call.pre.links, call.id)
    /\ call.children = UndefList =>
         Outgoing(Links, call.id) = Outgoing(call.pre.links, call.id)
    /\ call.parents = <<>> => Incoming(Links, call.id) = {}
    /\ call.children = <<>> => Outgoing(Links, call.id) = {}

\* C7 witness: task 1 had a parent and a child; parents = [] with children
\* undefined has removed the parent and kept the child.
C7_Witness ==
  LET call == calls[SeqCaller] IN
  /\ call.op = "setRelations"
  /\ call.pc = "done"
  /\ call.id = 1
  /\ call.parents = <<>>
  /\ call.children = UndefList
  /\ call.pre.links = {<<2, 1>>, <<1, 3>>}
  /\ Links = {<<1, 3>>}

PreTaskIds(call) == {t.id : t \in call.pre.tasks}

\* C8: delete(id) of a missing id is NotFound and changes nothing; of an
\* existing id it removes the edges that touch id and the row, and nothing else.
C8_DeleteCascades ==
  LET call == calls[SeqCaller] IN
  (call.op = "delete" /\ call.pc = "done") =>
    /\ call.id \notin PreTaskIds(call) =>
         /\ call.result = "NotFound"
         /\ tasks = call.pre.tasks
         /\ Links = call.pre.links
    /\ call.id \in PreTaskIds(call) =>
         /\ call.result = "ok"
         /\ tasks = {t \in call.pre.tasks : t.id # call.id}
         /\ Links = {e \in call.pre.links : e[1] # call.id /\ e[2] # call.id}

\* C8 witness: the deleted task was a child in one edge, another edge did not
\* touch it and is still there.
C8_Witness ==
  LET call == calls[SeqCaller] IN
  /\ call.op = "delete"
  /\ call.pc = "done"
  /\ call.result = "ok"
  /\ Incoming(call.pre.links, call.id) # {}
  /\ Links # {}

\* The ids of a list of the call (none when the list is undefined).
ListIds(list) == IF list = UndefList THEN {} ELSE SeqToSet(list)

\* C9: an update of an existing task that supplies no field but parentIds
\* and/or childIds (of existing tasks) succeeds, replaces the supplied
\* directions and returns the task with its new relations.
C9_RelationOnlyUpdateSucceeds ==
  LET call == calls[SeqCaller] IN
  (/\ call.op = "update"
   /\ call.pc = "done"
   /\ call.fields = NoFields
   /\ (call.parents # UndefList \/ call.children # UndefList)
   /\ call.id \in PreTaskIds(call)
   /\ ListIds(call.parents) \cup ListIds(call.children) \subseteq PreTaskIds(call)) =>
     /\ call.result = "ok"
     /\ call.parents # UndefList =>
          {r.id : r \in call.ret.parents} = ListIds(call.parents) \ {call.id}
     /\ call.children # UndefList =>
          {r.id : r \in call.ret.children} = ListIds(call.children) \ {call.id}

\* C10: an update with a valid payload of an id that no task has fails with
\* NotFound and leaves the task table and the edge table as they were.
C10_UpdateMissingIsNotFound ==
  LET call == calls[SeqCaller] IN
  (/\ call.op = "update"
   /\ call.pc = "done"
   /\ call.result # "BadRequest"
   /\ call.id \notin PreTaskIds(call)) =>
     /\ call.result = "NotFound"
     /\ tasks = call.pre.tasks
     /\ Links = call.pre.links

\* ------------------------------------------------------ field updates
\* Sequential create, update and delete calls on at most MaxFieldTasks tasks;
\* an update supplies any subset of the four fields and no relation list.
MaxFieldTasks == 2

FieldUpdates ==
  {[EmptyUpdate EXCEPT !.type = ty, !.title = ti, !.description = de, !.status = st] :
     ty \in {Undef, "task"}, ti \in {UndefText, <<"B", " ">>},
     de \in {UndefText, <<"e">>}, st \in {Undef, StatusDone}}

FieldStartCreate ==
  /\ taskSeq < MaxFieldTasks
  /\ StartCreate(SeqCaller, [ValidCreate EXCEPT !.status = StatusDecomposed], TRUE)

FieldStartUpdate ==
  \E id \in 1..MaxFieldTasks, p \in FieldUpdates : StartUpdate(SeqCaller, id, p, TRUE)

FieldStartDelete == \E id \in 1..MaxFieldTasks : StartDelete(SeqCaller, id, TRUE)

UpdateStep(c) ==
  \/ UpdateRun(c)
  \/ UpdateSelect(c)

NextFields ==
  \/ FieldStartCreate
  \/ FieldStartUpdate
  \/ FieldStartDelete
  \/ CreateStep(SeqCaller)
  \/ UpdateStep(SeqCaller)
  \/ DeleteStep(SeqCaller)

SpecFields == Init /\ [][NextFields]_vars

\* The row an update is to leave: the supplied fields replaced, the rest kept.
Replaced(row, supplied) ==
  [row EXCEPT
     !.type = IF supplied.type # Undef THEN supplied.type ELSE @,
     !.title = IF supplied.title # UndefText THEN supplied.title ELSE @,
     !.description = IF supplied.description # UndefText THEN supplied.description ELSE @,
     !.status = IF supplied.status # Undef THEN supplied.status ELSE @]

UpdateFrame ==
  LET call == calls[SeqCaller] IN
  (call.op = "update" /\ call.pc = "done" /\ call.result = "ok") =>
    tasks = {IF t.id = call.id THEN Replaced(t, call.fields) ELSE t :
               t \in call.pre.tasks}

CodeKept ==
  \A t \in tasks : \A u \in tasks' : u.id = t.id => u.code = t.code

\* C11: a successful update leaves the addressed task with the supplied fields
\* (trimmed) replaced and its id, code, creation time and unsupplied fields as
\* before, and every other task as before; no step of any call changes the code
\* of a task that exists.
C11_UpdateReplacesSuppliedOnly == [](UpdateFrame) /\ [][CodeKept]_vars

\* C11 witness: an update of task 1 with a title alone has returned; task 1 has
\* the new title and its other fields, task 2 is as before.
C11_Witness ==
  LET call == calls[SeqCaller] IN
  /\ call.op = "update" /\ call.pc = "done" /\ call.result = "ok"
  /\ call.id = 1
  /\ call.fields = [NoFields EXCEPT !.title = <<"B">>]
  /\ 2 \in TaskIds
  /\ TaskById(1).title = <<"B">>
  /\ TaskById(1).type = "epic"
  /\ TaskById(1).status = StatusDecomposed
  /\ TaskById(1).code = FormatCode(1)

\* ------------------------------------------------------ create validation
\* Sequential TasksService.create calls: a valid payload with a status that is
\* omitted, empty, canonical or unknown and with id lists that are absent or
\* hold an id that exists, does not exist or is not positive; and payloads with
\* one invalid field.
CreateIdLists == {UndefList, <<>>, <<0>>, <<1>>, <<2>>}

CreateStatuses == {Undef, "", "bogus", StatusDone}

CreateInputs ==
  {[ValidCreate EXCEPT !.status = st, !.parentIds = ps] :
     st \in CreateStatuses, ps \in CreateIdLists}
  \cup {[ValidCreate EXCEPT !.childIds = cs] : cs \in CreateIdLists}
  \cup {[ValidCreate EXCEPT !.type = ty] : ty \in {Undef, "", "bogus"}}
  \cup {[ValidCreate EXCEPT !.title = ti] : ti \in {UndefText, <<>>, <<" ">>}}
  \cup {[ValidCreate EXCEPT !.description = de] : de \in {UndefText, <<>>, <<" ", " ">>}}

ValidateStartCreate == \E p \in CreateInputs : StartCreate(SeqCaller, p, TRUE)

NextCreate ==
  \/ ValidateStartCreate
  \/ EnsureIdsExist(SeqCaller)
  \/ CreateStep(SeqCaller)
  \/ RelInsertParent(SeqCaller)
  \/ RelInsertChild(SeqCaller)

SpecCreate == Init /\ [][NextCreate]_vars

\* Missing, or nothing but spaces.
IsBlank(text) == text = UndefText \/ \A i \in 1..Len(text) : text[i] = " "

PositiveIds(list) == {id \in ListIds(list) : id > 0}

FieldsInvalid(p) ==
  \/ p.type \notin TASK_TYPES
  \/ IsBlank(p.title)
  \/ IsBlank(p.description)

Rejected(call) ==
  /\ call.result = "BadRequest"
  /\ tasks = call.pre.tasks
  /\ Links = call.pre.links

DefaultStatus(call) ==
  /\ call.ret.task.status = StatusOpen
  /\ call.ret.task.id \in TaskIds
  /\ TaskById(call.ret.task.id).status = StatusOpen

\* C12 as stated: create rejects with a validation error, creating no row and
\* no edge, a missing or blank title or description, a type outside the three,
\* a status outside the five, and any listed id that no task has; a create
\* without status yields the initial status.
C12_CreateRejectsInvalid ==
  LET call == calls[SeqCaller]
      p == call.payload
      bad == \/ FieldsInvalid(p)
             \/ (p.status # Undef /\ p.status \notin TASK_STATUSES)
             \/ (ListIds(p.parentIds) \cup ListIds(p.childIds)) \ PreTaskIds(call) # {}
  IN
  (call.op = "create" /\ call.pc = "done") =>
    /\ bad => Rejected(call)
    /\ (~bad /\ p.status = Undef /\ call.result = "ok") => DefaultStatus(call)

\* C12 amended: the status is rejected when it is non-empty and outside the
\* five (an empty one counts as omitted), a listed id when it is positive and
\* no task has it (the others are dropped from the list); every other payload
\* is accepted, and one without status or with an empty one yields the initial
\* status.
C12_CreateRejectsInvalidParsed ==
  LET call == calls[SeqCaller]
      p == call.payload
      bad == \/ FieldsInvalid(p)
             \/ (p.status \notin {Undef, ""} /\ p.status \notin TASK_STATUSES)
             \/ (PositiveIds(p.parentIds) \cup PositiveIds(p.childIds))
                  \ PreTaskIds(call) # {}
  IN
  (call.op = "create" /\ call.pc = "done") =>
    /\ bad => Rejected(call)
    /\ ~bad => call.result = "ok"
    /\ (~bad /\ p.status \in {Undef, ""}) => DefaultStatus(call)
    /\ ~bad => {r.id : r \in call.ret.parents} = PositiveIds(p.parentIds)

\* C12 witness: a create with an empty status and the parent list [0] has
\* returned a task with the initial status and no parent.
C12_Witness ==
  LET call == calls[SeqCaller] IN
  /\ call.op = "create" /\ call.pc = "done" /\ call.result = "ok"
  /\ call.payload.status = ""
  /\ call.payload.parentIds = <<0>>
  /\ call.ret.task.status = StatusOpen
  /\ call.ret.parents = {}
  /\ tasks # call.pre.tasks

\* ------------------------------------------------------------ statuses
\* Sequential creates with every status (omitted, empty, unknown, canonical)
\* and updates that supply a status alone.
StatusInputs == {Undef, "", "bogus"} \cup TASK_STATUSES

StatusStartCreate ==
  \E st \in StatusInputs :
    StartCreate(SeqCaller, [ValidCreate EXCEPT !.status = st], TRUE)

StatusStartUpdate ==
  \E id \in RefIds, st \in StatusInputs \ {Undef} :
    StartUpdate(SeqCaller, id, [EmptyUpdate EXCEPT !.status = st], TRUE)

NextStatus ==
  \/ StatusStartCreate
  \/ StatusStartUpdate
  \/ CreateStep(SeqCaller)
  \/ UpdateStep(SeqCaller)

SpecStatus == Init /\ [][NextStatus]_vars

\* C13: every task row holds one of the five canonical statuses, and an update
\* of an existing task to any of the five is accepted and stored whatever the
\* status of the task was.
C13_StatusCanonicalAnyOrder ==
  LET call == calls[SeqCaller] IN
  /\ \A t \in tasks : t.status \in TASK_STATUSES
  /\ (/\ call.op = "update" /\ call.pc = "done"
      /\ call.payload.status \in TASK_STATUSES
      /\ call.id \in PreTaskIds(call)) =>
       /\ call.result = "ok"
       /\ TaskById(call.id).status = call.payload.status
       /\ call.ret.task.status = call.payload.status

\* C13 witness: a task that was 'Vypolnena' (done) has been set back to
\* 'Otkryta' (open) by an update.
C13_Witness ==
  LET call == calls[SeqCaller] IN
  /\ call.op = "update" /\ call.pc = "done" /\ call.result = "ok"
  /\ \E t \in call.pre.tasks : t.id = call.id /\ t.status = StatusDone
  /\ TaskById(call.id).status = StatusOpen

\* ---------------------------------------------- artifact store: the steps
MaxArtifacts == 2

MaxVersions == 3

MaxSources == 3

MaxExports == 2

taskVars == <<tasks, taskSeq, task_links, calls, lastDeletedTop, bootVars>>

ArtifactIds == {a.id : a \in artifacts}

VersionIds == {v.id : v \in artifact_versions}

VersionsOf(rows, artifactId) == {v \in rows : v.artifact_id = artifactId}

\* A count that finds no source row.
SourcesOfNone(rows, artifactId) == {}

SourcesOf(rows, artifactId) == {r \in rows : r.artifact_id = artifactId}

\* `input.content?.trim()` and `!value`: undefined and blank are both falsy.
TrimOrUndef(text) == IF text = UndefText THEN UndefText ELSE Trim(text)

Falsy(text) == text = UndefText \/ text = <<>>

KeepRowidSave(value, ss) ==
  IF (\E c \in Calls : calls[c].pc = "readBack") \/ SaveReadPending(ss)
  THEN value ELSE 0

\* saveArtifactWithVersion up to its first await: content and title are
\* trimmed and required, the category is normalized; then upsertArtifactRecord
\* branches on `if (input.id)`.
StartSave(c, input, snap) ==
  /\ saves[c].pc = "idle"
  /\ LET base == [IdleSave EXCEPT !.op = "save", !.input = input,
                                  !.pre = StoreSnapshot(snap)]
     IN saves' = [saves EXCEPT ![c] =
          IF Falsy(TrimOrUndef(input.content)) \/ Falsy(TrimOrUndef(input.title))
          THEN FinishSave(base, "ValidationError", NoSaveReturn)
          ELSE IF normalizeCategory(input.category) = Undef
          THEN FinishSave(base, "UnsupportedCategory", NoSaveReturn)
          ELSE [base EXCEPT
                  !.pc = IF input.artifactId # UndefId /\ input.artifactId # 0
                         THEN "upsertSelect" ELSE "artInsert"]]
  /\ UNCHANGED <<artifacts, artifact_versions, artifact_sources, artifact_exports,
                 sqlite_sequence, lastInsertRowid>>
  /\ UNCHANGED taskVars

\* upsertArtifactRecord with an id: SELECT id FROM artifacts WHERE id = ?
UpsertSelect(c) ==
  LET call == saves[c] IN
  /\ call.pc = "upsertSelect"
  /\ saves' = [saves EXCEPT ![c] =
       IF call.input.artifactId \in ArtifactIds
       THEN [call EXCEPT !.pc = "artUpdate"]
       ELSE FinishSave(call, "NotFound", NoSaveReturn)]
  /\ UNCHANGED <<artifacts, artifact_versions, artifact_sources, artifact_exports,
                 sqlite_sequence, lastInsertRowid>>
  /\ UNCHANGED taskVars

\* An upsert that leaves the kind at its default.
ArtifactRowTextKind(id, input) ==
  [id |-> id, title |-> Trim(input.title), kind |-> "text",
   category |-> normalizeCategory(input.category)]

\* The row written by upsertArtifactRecord.
ArtifactRow(id, input) ==
  [id |-> id, title |-> Trim(input.title), kind |-> input.kind,
   category |-> normalizeCategory(input.category)]

\* The CHECKs of the artifacts table on kind and category.
RowAccepted(input) ==
  /\ input.kind \in ARTIFACT_KIND_VALUES
  /\ normalizeCategory(input.category) \in ARTIFACT_CATEGORY_DB_VALUES

\* The errors of a refused row: the CHECK of the table, or, for a parameter that
\* is not a value the driver binds, the driver's own refusal.
RefusalKinds(input) ==
  IF normalizeCategory(input.category) = Inherited
  THEN {"SQLITE_CONSTRAINT", "TypeError"} ELSE {"SQLITE_CONSTRAINT"}

\* upsertArtifactRecord with an id: UPDATE artifacts SET title, kind, category
\* WHERE id = ?; the CHECKs can refuse it.
ArtUpdate(c) ==
  LET call == saves[c]
      id == call.input.artifactId
  IN
  /\ call.pc = "artUpdate"
  /\ IF id \in ArtifactIds /\ ~RowAccepted(call.input)
     THEN /\ \E kind \in RefusalKinds(call.input) :
               saves' = [saves EXCEPT ![c] = FinishSave(call, kind, NoSaveReturn)]
          /\ UNCHANGED artifacts
     ELSE /\ artifacts' =
               {IF a.id = id THEN ArtifactRow(id, call.input) ELSE a : a \in artifacts}
          /\ saves' = [saves EXCEPT ![c] =
               [call EXCEPT !.artifactId = id, !.pc = "verMax"]]
  /\ UNCHANGED <<artifact_versions, artifact_sources, artifact_exports,
                 sqlite_sequence, lastInsertRowid>>
  /\ UNCHANGED taskVars

\* upsertArtifactRecord without an id: INSERT INTO artifacts (title, kind, category)
ArtInsert(c) ==
  LET call == saves[c]
      id == sqlite_sequence.artifacts + 1
  IN
  /\ call.pc = "artInsert"
  /\ IF ~RowAccepted(call.input)
     THEN /\ \E kind \in RefusalKinds(call.input) :
               saves' = [saves EXCEPT ![c] = FinishSave(call, kind, NoSaveReturn)]
          /\ UNCHANGED <<artifacts, sqlite_sequence, lastInsertRowid>>
     ELSE /\ id <= MaxArtifacts
          /\ artifacts' = artifacts \cup {ArtifactRow(id, call.input)}
          /\ sqlite_sequence' = [sqlite_sequence EXCEPT !.artifacts = id]
          /\ lastInsertRowid' = id
          /\ saves' = [saves EXCEPT ![c] =
               [call EXCEPT !.artifactRow = id, !.pc = "artReadBack"]]
  /\ UNCHANGED <<artifact_versions, artifact_sources, artifact_exports>>
  /\ UNCHANGED taskVars

\* upsertArtifactRecord: SELECT id FROM artifacts WHERE id = last_insert_rowid()
ArtReadBack(c) ==
  LET call == saves[c] IN
  /\ call.pc = "artReadBack"
  /\ saves' = [saves EXCEPT ![c] =
       IF lastInsertRowid \in ArtifactIds
       THEN [call EXCEPT !.artifactId = lastInsertRowid, !.pc = "verMax"]
       ELSE FinishSave(call, "ReadBackFailed", NoSaveReturn)]
  /\ lastInsertRowid' = KeepRowidSave(lastInsertRowid, saves')
  /\ UNCHANGED <<artifacts, artifact_versions, artifact_sources, artifact_exports,
                 sqlite_sequence>>
  /\ UNCHANGED taskVars

\* COALESCE(MAX(version), 0) of the artifact's version rows.
MaxVersion(rows, artifactId) ==
  Max({0} \cup {v.version : v \in VersionsOf(rows, artifactId)})

\* A numbering that restarts at 1 for every save.
NextVersionOne(rows, artifactId) == 1

\* SELECT COALESCE(MAX(version), 0) + 1 as next FROM artifact_versions
\* WHERE artifact_id = ?
NextVersion(rows, artifactId) == MaxVersion(rows, artifactId) + 1

VerMax(c) ==
  LET call == saves[c] IN
  /\ call.pc = "verMax"
  /\ saves' = [saves EXCEPT ![c] =
       [call EXCEPT !.next = NextVersion(artifact_versions, call.artifactId),
                    !.pc = "verInsert"]]
  /\ UNCHANGED <<artifacts, artifact_versions, artifact_sources, artifact_exports,
                 sqlite_sequence, lastInsertRowid>>
  /\ UNCHANGED taskVars

\* attachArtifactSources: Array.from(new Set((ids ?? []).filter(finite and > 0)))
UniqueIds(ids) ==
  IF ids = UndefList THEN <<>>
  ELSE Dedupe(SelectSeq(ids, LAMBDA num : IsFinite(num) /\ num > 0), {})

\* An attach without the manual fallback.
SourcesEnterNoFallback(call) ==
  LET taskIds == UniqueIds(call.input.sourceTaskIds)
      messageIds == UniqueIds(call.input.sourceMessageIds)
  IN [call EXCEPT !.taskIds = taskIds, !.messageIds = messageIds,
                  !.pc = IF taskIds # <<>> THEN "srcCheck"
                         ELSE IF messageIds # <<>> THEN "srcMessage"
                         ELSE "snapshot"]

\* attachArtifactSources is entered: the task ids are checked first when there
\* are any, then the message ids are inserted, and with neither the sources of
\* the artifact are counted.
SourcesEnter(call) ==
  LET taskIds == UniqueIds(call.input.sourceTaskIds)
      messageIds == UniqueIds(call.input.sourceMessageIds)
  IN [call EXCEPT !.taskIds = taskIds, !.messageIds = messageIds,
                  !.pc = IF taskIds # <<>> THEN "srcCheck"
                         ELSE IF messageIds # <<>> THEN "srcMessage"
                         ELSE "srcCount"]

\* UNIQUE(artifact_id, version) never refuses.
VersionTakenNever(rows, artifactId, version) == FALSE

\* UNIQUE(artifact_id, version)
VersionTaken(rows, artifactId, version) ==
  \E v \in rows : v.artifact_id = artifactId /\ v.version = version

\* A save that overwrites the rows of the artifact with the new one.
ReplaceVersions(rows, row) ==
  {v \in rows : v.artifact_id # row.artifact_id} \cup {row}

\* INSERT INTO artifact_versions: a row is added, none is touched.
AppendVersion(rows, row) == rows \cup {row}

\* INSERT INTO artifact_versions (artifact_id, version, format, content,
\* render_url, notes); created_at is the ordinal of the INSERT, the row id.
VerInsert(c) ==
  LET call == saves[c]
      id == sqlite_sequence.artifact_versions + 1
      row == [id |-> id, artifact_id |-> call.artifactId, version |-> call.next,
              format |-> call.input.format, content |-> Trim(call.input.content),
              render_url |-> call.input.renderUrl, notes |-> call.input.note]
  IN
  /\ call.pc = "verInsert"
  /\ IF \/ call.input.format \notin ARTIFACT_FORMAT_VALUES
        \/ call.artifactId \notin ArtifactIds
        \/ VersionTaken(artifact_versions, call.artifactId, call.next)
     THEN /\ saves' = [saves EXCEPT ![c] =
               FinishSave(call, "SQLITE_CONSTRAINT", NoSaveReturn)]
          /\ UNCHANGED <<artifact_versions, sqlite_sequence, lastInsertRowid>>
     ELSE /\ id <= MaxVersions
          /\ artifact_versions' = AppendVersion(artifact_versions, row)
          /\ sqlite_sequence' = [sqlite_sequence EXCEPT !.artifact_versions = id]
          /\ saves' = [saves EXCEPT ![c] =
               SourcesEnter([call EXCEPT !.versionRow = id])]
          /\ lastInsertRowid' = KeepRowidSave(id, saves')
  /\ UNCHANGED <<artifacts, artifact_sources, artifact_exports>>
  /\ UNCHANGED taskVars

\* A lookup that finds every task.
MissingTasksNone(taskIds) == <<>>

\* uniqueTasks.filter((taskId) => !existing.find((item) => item.id === taskId))
MissingTasks(taskIds) == SelectSeq(taskIds, LAMBDA id : id \notin TaskIds)

\* attachArtifactSources: getTasksByIds(uniqueTasks); a missing task is an error
\* naming the missing ids.
SrcCheck(c) ==
  LET call == saves[c]
      missing == MissingTasks(call.taskIds)
  IN
  /\ call.pc = "srcCheck"
  /\ saves' = [saves EXCEPT ![c] =
       IF missing # <<>>
       THEN FinishSave(call, "ValidationError", [NoSaveReturn EXCEPT !.missing = missing])
       ELSE [call EXCEPT !.pc = "srcTask"]]
  /\ UNCHANGED <<artifacts, artifact_versions, artifact_sources, artifact_exports,
                 sqlite_sequence, lastInsertRowid>>
  /\ UNCHANGED taskVars

\* source_id NULL of the manual row
NullId == 0

\* 'Sohraneno bez yavnoi ssylki na istochnik', the description of the manual row
ManualDescription == <<"manual">>

\* VALUES (?, 'task' | 'message', ?, NULL) and VALUES (?, 'manual', NULL, '...')
SourceRow(id, artifactId, type, sourceId) ==
  [id |-> id, artifact_id |-> artifactId, source_type |-> type, source_id |-> sourceId,
   description |-> IF type = "manual" THEN ManualDescription ELSE NullText]

\* INSERT OR IGNORE INTO artifact_sources: the table has no UNIQUE constraint
\* beside its AUTOINCREMENT id, so no insert is ever ignored.
InsertSource(c, type, sourceId) ==
  LET id == sqlite_sequence.artifact_sources + 1 IN
  /\ id <= MaxSources
  /\ artifact_sources' =
       artifact_sources \cup {SourceRow(id, saves[c].artifactId, type, sourceId)}
  /\ sqlite_sequence' = [sqlite_sequence EXCEPT !.artifact_sources = id]
  /\ lastInsertRowid' = KeepRowidSave(id, saves)

\* for (const taskId of uniqueTasks) INSERT OR IGNORE ... 'task'
SrcTask(c) ==
  LET call == saves[c]
      rest == Tail(call.taskIds)
  IN
  /\ call.pc = "srcTask"
  /\ InsertSource(c, "task", Head(call.taskIds))
  /\ saves' = [saves EXCEPT ![c] =
       [call EXCEPT !.taskIds = rest,
                    !.pc = IF rest # <<>> THEN "srcTask"
                           ELSE IF call.messageIds # <<>> THEN "srcMessage"
                           ELSE "snapshot"]]
  /\ UNCHANGED <<artifacts, artifact_versions, artifact_exports>>
  /\ UNCHANGED taskVars

\* for (const messageId of uniqueMessages) INSERT OR IGNORE ... 'message'
SrcMessage(c) ==
  LET call == saves[c]
      rest == Tail(call.messageIds)
  IN
  /\ call.pc = "srcMessage"
  /\ InsertSource(c, "message", Head(call.messageIds))
  /\ saves' = [saves EXCEPT ![c] =
       [call EXCEPT !.messageIds = rest,
                    !.pc = IF rest # <<>> THEN "srcMessage" ELSE "snapshot"]]
  /\ UNCHANGED <<artifacts, artifact_versions, artifact_exports>>
  /\ UNCHANGED taskVars

\* SELECT COUNT(*) FROM artifact_sources WHERE artifact_id = ?
SrcCount(c) ==
  LET call == saves[c] IN
  /\ call.pc = "srcCount"
  /\ saves' = [saves EXCEPT ![c] =
       [call EXCEPT !.pc = IF SourcesOf(artifact_sources, call.artifactId) = {}
                           THEN "srcManual" ELSE "snapshot"]]
  /\ UNCHANGED <<artifacts, artifact_versions, artifact_sources, artifact_exports,
                 sqlite_sequence, lastInsertRowid>>
  /\ UNCHANGED taskVars

\* INSERT INTO artifact_sources ... 'manual', NULL
SrcManual(c) ==
  LET call == saves[c] IN
  /\ call.pc = "srcManual"
  /\ InsertSource(c, "manual", NullId)
  /\ saves' = [saves EXCEPT ![c] = [call EXCEPT !.pc = "snapshot"]]
  /\ UNCHANGED <<artifacts, artifact_versions, artifact_exports>>
  /\ UNCHANGED taskVars

\* The version row with the lowest number of the artifact.
OldestVersionRow(rows, artifactId) ==
  CHOOSE v \in VersionsOf(rows, artifactId) :
    \A w \in VersionsOf(rows, artifactId) : w.version >= v.version

\* SELECT v2.id FROM artifact_versions v2 WHERE v2.artifact_id = a.id
\* ORDER BY v2.version DESC, v2.created_at DESC LIMIT 1
LatestVersionRow(rows, artifactId) ==
  CHOOSE v \in VersionsOf(rows, artifactId) :
    \A w \in VersionsOf(rows, artifactId) :
      \/ w.version < v.version
      \/ (w.version = v.version /\ w.id <= v.id)

\* The row of the join artifacts a INNER JOIN artifact_versions v, mapped to the
\* returned snapshot.
SnapshotOf(a, v) ==
  [artifactId |-> a.id, title |-> a.title, kind |-> a.kind,
   category |-> toExternalCategory(a.category), version |-> v.version,
   format |-> v.format, content |-> v.content, renderUrl |-> v.render_url]

\* getLatestArtifactSnapshot; undefined becomes 'could not read the saved artifact'.
SnapshotRead(c) ==
  LET call == saves[c]
      id == call.artifactId
  IN
  /\ call.pc = "snapshot"
  /\ saves' = [saves EXCEPT ![c] =
       IF id \in ArtifactIds /\ VersionsOf(artifact_versions, id) # {}
       THEN FinishSave(call, "ok",
              [NoSaveReturn EXCEPT !.snapshot =
                 SnapshotOf(CHOOSE a \in artifacts : a.id = id,
                            LatestVersionRow(artifact_versions, id))])
       ELSE FinishSave(call, "SnapshotFailed", NoSaveReturn)]
  /\ UNCHANGED <<artifacts, artifact_versions, artifact_sources, artifact_exports,
                 sqlite_sequence, lastInsertRowid>>
  /\ UNCHANGED taskVars

\* A join on v.artifact_id = a.id alone: one snapshot per version row.
LatestSnapshotsPerVersion ==
  UNION {{SnapshotOf(a, v) : v \in VersionsOf(artifact_versions, a.id)} : a \in artifacts}

\* listLatestArtifacts: one SELECT, one snapshot per artifact with a version.
LatestSnapshots ==
  {SnapshotOf(a, LatestVersionRow(artifact_versions, a.id)) :
     a \in {b \in artifacts : VersionsOf(artifact_versions, b.id) # {}}}

ListLatestArtifacts(c, snap) ==
  /\ saves[c].pc = "idle"
  /\ saves' = [saves EXCEPT ![c] =
       FinishSave([IdleSave EXCEPT !.op = "list", !.pre = StoreSnapshot(snap)], "ok",
                  [NoSaveReturn EXCEPT !.list = LatestSnapshots])]
  /\ UNCHANGED <<artifacts, artifact_versions, artifact_sources, artifact_exports,
                 sqlite_sequence, lastInsertRowid>>
  /\ UNCHANGED taskVars

\* addArtifactExport up to its first await: content or location is required.
StartExport(c, input, snap) ==
  /\ saves[c].pc = "idle"
  /\ LET base == [IdleSave EXCEPT !.op = "export", !.export = input,
                                  !.pre = StoreSnapshot(snap)]
         hasContent == ~Falsy(TrimOrUndef(input.content))
         hasLocation == ~Falsy(TrimOrUndef(input.location))
     IN saves' = [saves EXCEPT ![c] =
          IF ~hasContent /\ ~hasLocation
          THEN FinishSave(base, "ValidationError", NoSaveReturn)
          ELSE [base EXCEPT !.pc = "expSelect"]]
  /\ UNCHANGED <<artifacts, artifact_versions, artifact_sources, artifact_exports,
                 sqlite_sequence, lastInsertRowid>>
  /\ UNCHANGED taskVars

\* A version lookup that finds a row for every id.
VersionExistsAlways(versionId) == TRUE

\* SELECT id FROM artifact_versions WHERE id = ? returns a row.
VersionExists(versionId) == versionId \in VersionIds

\* `if (!version) throw`: the export needs an existing version row.
ExpSelect(c) ==
  LET call == saves[c] IN
  /\ call.pc = "expSelect"
  /\ saves' = [saves EXCEPT ![c] =
       IF VersionExists(call.export.versionId)
       THEN [call EXCEPT !.pc = "expInsert"]
       ELSE FinishSave(call, "NotFound", NoSaveReturn)]
  /\ UNCHANGED <<artifacts, artifact_versions, artifact_sources, artifact_exports,
                 sqlite_sequence, lastInsertRowid>>
  /\ UNCHANGED taskVars

\* `hasContent ? input.content!.trim() : null`
TrimOrNull(text) == IF Falsy(TrimOrUndef(text)) THEN NullText ELSE Trim(text)

\* An export that stores the location untrimmed and never null.
ExportRowRaw(id, input) ==
  [id |-> id, artifact_version_id |-> input.versionId, format |-> input.format,
   content |-> TrimOrNull(input.content), location |-> input.location]

ExportRow(id, input) ==
  [id |-> id, artifact_version_id |-> input.versionId, format |-> input.format,
   content |-> TrimOrNull(input.content), location |-> TrimOrNull(input.location)]

\* INSERT INTO artifact_exports (artifact_version_id, format, content, location)
ExpInsert(c) ==
  LET call == saves[c]
      id == sqlite_sequence.artifact_exports + 1
  IN
  /\ call.pc = "expInsert"
  /\ IF \/ call.export.format \notin ARTIFACT_EXPORT_FORMAT_VALUES
        \/ call.export.versionId \notin VersionIds
     THEN /\ saves' = [saves EXCEPT ![c] =
               FinishSave(call, "SQLITE_CONSTRAINT", NoSaveReturn)]
          /\ UNCHANGED <<artifact_exports, sqlite_sequence, lastInsertRowid>>
     ELSE /\ id <= MaxExports
          /\ artifact_exports' = artifact_exports \cup {ExportRow(id, call.export)}
          /\ sqlite_sequence' = [sqlite_sequence EXCEPT !.artifact_exports = id]
          /\ lastInsertRowid' = id
          /\ saves' = [saves EXCEPT ![c] =
               [call EXCEPT !.exportRow = id, !.pc = "expReadBack"]]
  /\ UNCHANGED <<artifacts, artifact_versions, artifact_sources>>
  /\ UNCHANGED taskVars

\* SELECT id FROM artifact_exports WHERE id = last_insert_rowid()
ExpReadBack(c) ==
  LET call == saves[c] IN
  /\ call.pc = "expReadBack"
  /\ saves' = [saves EXCEPT ![c] =
       IF \E e \in artifact_exports : e.id = lastInsertRowid
       THEN FinishSave(call, "ok", [NoSaveReturn EXCEPT !.id = lastInsertRowid])
       ELSE FinishSave(call, "ReadBackFailed", NoSaveReturn)]
  /\ lastInsertRowid' = KeepRowidSave(lastInsertRowid, saves')
  /\ UNCHANGED <<artifacts, artifact_versions, artifact_sources, artifact_exports,
                 sqlite_sequence>>
  /\ UNCHANGED taskVars

\* The caller has its answer and may issue the next call.
ReturnSave(c) ==
  /\ saves[c].pc = "done"
  /\ saves' = [saves EXCEPT ![c] = IdleSave]
  /\ UNCHANGED <<artifacts, artifact_versions, artifact_sources, artifact_exports,
                 sqlite_sequence, lastInsertRowid>>
  /\ UNCHANGED taskVars

SaveStep(c) ==
  \/ UpsertSelect(c)
  \/ ArtUpdate(c)
  \/ ArtInsert(c)
  \/ ArtReadBack(c)
  \/ VerMax(c)
  \/ VerInsert(c)
  \/ SrcCheck(c)
  \/ SrcMessage(c)
  \/ SrcCount(c)
  \/ SrcManual(c)
  \/ SnapshotRead(c)
  \/ ReturnSave(c)

ExportStep(c) ==
  \/ ExpSelect(c)
  \/ ExpInsert(c)
  \/ ExpReadBack(c)

\* ------------------------------------------------- interleaved saves
\* Two callers of saveArtifactWithVersion whose round trips interleave: saves
\* that create an artifact and saves on artifact 1 or 2, some of which fail
\* (blank content, a format the CHECK refuses, a source task that does not
\* exist, the number taken by the other save).
ValidSave ==
  [NoSaveInput EXCEPT !.title = <<"t">>, !.kind = "text", !.category = "er_diagram",
                      !.format = "markdown", !.content = <<"x">>]

ConcSaveInputs ==
  {[ValidSave EXCEPT !.artifactId = id, !.format = fo, !.sourceTaskIds = ts] :
     id \in {UndefId} \cup (1..MaxArtifacts), fo \in {"markdown", "bogus"},
     ts \in {UndefList, <<1>>}}
  \cup {[ValidSave EXCEPT !.content = <<" ">>]}

ConcStartSave(c) == \E input \in ConcSaveInputs : StartSave(c, input, FALSE)

NextVersions ==
  \E c \in Calls :
    \/ ConcStartSave(c)
    \/ UpsertSelect(c)
    \/ ArtUpdate(c)
    \/ ArtInsert(c)
    \/ ArtReadBack(c)
    \/ VerMax(c)
    \/ VerInsert(c)
    \/ SrcCheck(c)
    \/ SrcCount(c)
    \/ SrcManual(c)
    \/ SnapshotRead(c)
    \/ ReturnSave(c)

SpecVersions == Init /\ [][NextVersions]_vars

\* C14: the version numbers of the rows of each artifact are exactly 1..n, one
\* row each, and of two rows of an artifact the one inserted later (the larger
\* row id) has the larger number.
C14_VersionsContiguous ==
  \A id \in 1..sqlite_sequence.artifacts :
    LET rows == VersionsOf(artifact_versions, id) IN
    /\ {v.version : v \in rows} = 1..Cardinality(rows)
    /\ \A v \in rows : \A w \in rows : v.id < w.id => v.version < w.version

\* C14 witness: artifact 1 has two versions although one save on it lost the
\* number to the other and another failed after its version row was inserted.
C14_Witness ==
  /\ Cardinality(VersionsOf(artifact_versions, 1)) = 2
  /\ saves["c1"].pc = "done" /\ saves["c1"].result = "SQLITE_CONSTRAINT"
  /\ saves["c1"].input.format = "markdown"
  /\ saves["c2"].pc = "done" /\ saves["c2"].result = "ValidationError"
  /\ saves["c2"].versionRow # 0

\* ------------------------------------------------- sequential saves
\* One caller saves and lists, one call after the other: saves without an
\* artifactId, with the id 0, with the id of an artifact that exists or does
\* not, with two different sets of values, and saves that fail validation.
OtherSave ==
  [ValidSave EXCEPT !.title = <<"u", " ">>, !.kind = "diagram",
                    !.category = "USE_CASE_DIAGRAM", !.content = <<" ", "y">>]

StoreSaveInputs ==
  {[v EXCEPT !.artifactId = id] :
     v \in {ValidSave, OtherSave}, id \in {UndefId, 0} \cup (1..(MaxArtifacts + 1))}
  \cup {[ValidSave EXCEPT !.content = <<" ">>],
        [ValidSave EXCEPT !.title = UndefText],
        [ValidSave EXCEPT !.category = "bogus"]}

SeqStartSave == \E input \in StoreSaveInputs : StartSave(SeqCaller, input, TRUE)

SeqListLatest == ListLatestArtifacts(SeqCaller, TRUE)

NextStore ==
  \/ SeqStartSave
  \/ SeqListLatest
  \/ UpsertSelect(SeqCaller)
  \/ ArtUpdate(SeqCaller)
  \/ ArtInsert(SeqCaller)
  \/ ArtReadBack(SeqCaller)
  \/ VerMax(SeqCaller)
  \/ VerInsert(SeqCaller)
  \/ SrcCount(SeqCaller)
  \/ SrcManual(SeqCaller)
  \/ SnapshotRead(SeqCaller)
  \/ ReturnSave(SeqCaller)

SpecStore == Init /\ [][NextStore]_vars

PreArtifactIds(call) == {a.id : a \in call.pre.artifacts}

SaveReturned(call) == call.op = "save" /\ call.pc = "done" /\ call.result = "ok"

\* The version row of the artifact with the highest number.
TopVersion(id) ==
  CHOOSE v \in VersionsOf(artifact_versions, id) :
    v.version = MaxVersion(artifact_versions, id)

\* C15: a save without artifactId returns version 1 of a new artifact, a save
\* naming an existing artifact returns the next version of it, each with the
\* saved content; a following listLatestArtifacts has one entry per artifact,
\* the one with its highest version and that version's content.
C15_SaveTwiceThenList ==
  LET call == saves[SeqCaller]
      snapshot == call.ret.snapshot
  IN
  /\ (SaveReturned(call) /\ call.input.artifactId = UndefId) =>
       /\ snapshot.artifactId \in ArtifactIds \ PreArtifactIds(call)
       /\ snapshot.version = 1
       /\ snapshot.content = Trim(call.input.content)
  /\ (SaveReturned(call) /\ call.input.artifactId \in PreArtifactIds(call)) =>
       /\ snapshot.artifactId = call.input.artifactId
       /\ snapshot.version =
            MaxVersion(call.pre.versions, call.input.artifactId) + 1
       /\ snapshot.content = Trim(call.input.content)
  /\ (call.op = "list" /\ call.pc = "done") =>
       \A id \in ArtifactIds :
         VersionsOf(artifact_versions, id) # {} =>
           /\ Cardinality({e \in call.ret.list : e.artifactId = id}) = 1
           /\ \A e \in call.ret.list :
                e.artifactId = id =>
                  /\ e.version = Cardinality(VersionsOf(artifact_versions, id))
                  /\ e.content = TopVersion(id).content

\* C15 witness: artifact 1 was saved with content x and again, by id, with
\* content y; the list has one entry for it, version 2 with content y.
C15_Witness ==
  LET call == saves[SeqCaller] IN
  /\ call.op = "list" /\ call.pc = "done"
  /\ \E v \in artifact_versions :
       v.artifact_id = 1 /\ v.version = 1 /\ v.content = <<"x">>
  /\ \E v \in artifact_versions :
       v.artifact_id = 1 /\ v.version = 2 /\ v.content = <<"y">>
  /\ Cardinality(VersionsOf(artifact_versions, 1)) = 2
  /\ \E e \in call.ret.list :
       e.artifactId = 1 /\ e.version = 2 /\ e.content = <<"y">>
  /\ Cardinality({e \in call.ret.list : e.artifactId = 1}) = 1

\* ------------------------------------------------- every operation
\* One caller issues, one call after the other, the operations of the store:
\* saves with and without id and with message sources, exports, lists, and
\* TasksService create, update and delete.
AppendSaveInputs ==
  {[v EXCEPT !.artifactId = id, !.sourceMessageIds = ms] :
     v \in {ValidSave, OtherSave}, id \in {UndefId, 1}, ms \in {UndefList, <<1>>}}

AppendExportInputs ==
  {[NoExportInput EXCEPT !.versionId = id, !.format = "png", !.location = <<"l">>] :
     id \in 1..2}

BothIdle == calls[SeqCaller].pc = "idle" /\ saves[SeqCaller].pc = "idle"

AppendStartSave ==
  /\ BothIdle
  /\ \E input \in AppendSaveInputs : StartSave(SeqCaller, input, FALSE)

AppendStartExport ==
  /\ BothIdle
  /\ \E input \in AppendExportInputs : StartExport(SeqCaller, input, FALSE)

AppendListLatest == BothIdle /\ ListLatestArtifacts(SeqCaller, FALSE)

AppendStartCreate ==
  /\ BothIdle
  /\ taskSeq < MaxFieldTasks
  /\ StartCreate(SeqCaller, ValidCreate, FALSE)

AppendStartUpdate ==
  /\ BothIdle
  /\ \E id \in 1..MaxFieldTasks : StartUpdate(SeqCaller, id, FullUpdate, FALSE)

AppendStartDelete ==
  /\ BothIdle
  /\ \E id \in 1..MaxFieldTasks : StartDelete(SeqCaller, id, FALSE)

NextAppend ==
  \/ AppendStartSave
  \/ AppendStartExport
  \/ AppendListLatest
  \/ AppendStartCreate
  \/ AppendStartUpdate
  \/ AppendStartDelete
  \/ UpsertSelect(SeqCaller)
  \/ ArtUpdate(SeqCaller)
  \/ ArtInsert(SeqCaller)
  \/ ArtReadBack(SeqCaller)
  \/ VerMax(SeqCaller)
  \/ VerInsert(SeqCaller)
  \/ SrcMessage(SeqCaller)
  \/ SrcCount(SeqCaller)
  \/ SrcManual(SeqCaller)
  \/ SnapshotRead(SeqCaller)
  \/ ReturnSave(SeqCaller)
  \/ ExportStep(SeqCaller)
  \/ CreateStep(SeqCaller)
  \/ UpdateStep(SeqCaller)
  \/ DeleteStep(SeqCaller)

SpecAppend == Init /\ [][NextAppend]_vars

\* C16: no step of any operation changes or removes a version row that exists:
\* every row of artifact_versions is in the table after the step, with the same
\* number, format, content, render reference and note.
C16_VersionsAppendOnly ==
  [][\A v \in artifact_versions : v \in artifact_versions']_vars

\* C16 witness: artifact 1 has been saved twice with different content, an
\* export of its first version exists, and the first version row is as saved.
C16_Witness ==
  /\ \E v \in artifact_versions :
       v.artifact_id = 1 /\ v.version = 1 /\ v.content = <<"x">>
  /\ \E v \in artifact_versions :
       v.artifact_id = 1 /\ v.version = 2 /\ v.content = <<"y">>
  /\ \E e \in artifact_exports : e.artifact_version_id = 1
  /\ tasks # {}

StoreUnchanged(call) ==
  /\ artifacts = call.pre.artifacts
  /\ artifact_versions = call.pre.versions
  /\ artifact_sources = call.pre.sources

Overwritten(call) ==
  /\ ArtifactIds = PreArtifactIds(call)
  /\ \A a \in artifacts :
       IF a.id = call.input.artifactId
       THEN /\ a.title = Trim(call.input.title)
            /\ a.kind = call.input.kind
            /\ a.category = normalizeCategory(call.input.category)
       ELSE a \in call.pre.artifacts

\* C17 as stated: a save with any supplied artifactId that no artifact has
\* fails with NotFound and inserts nothing; with the id of an artifact it
\* overwrites title, kind and category and inserts no artifact; an artifact row
\* is inserted only when no artifactId is supplied.
C17_SuppliedIdMustExist ==
  LET call == saves[SeqCaller]
      id == call.input.artifactId
  IN
  (call.op = "save" /\ call.pc = "done" /\ call.result # "ValidationError"
     /\ call.result # "UnsupportedCategory") =>
    /\ (id # UndefId /\ id \notin PreArtifactIds(call)) =>
         call.result = "NotFound" /\ StoreUnchanged(call)
    /\ (id \in PreArtifactIds(call) /\ call.result = "ok") => Overwritten(call)
    /\ ArtifactIds # PreArtifactIds(call) => id = UndefId

\* C17 amended: the same for every artifactId other than 0; the id 0 is falsy
\* in `if (input.id)` and is treated as not supplied, so that save inserts a new
\* artifact.
C17_NonZeroIdMustExist ==
  LET call == saves[SeqCaller]
      id == call.input.artifactId
  IN
  (call.op = "save" /\ call.pc = "done" /\ call.result # "ValidationError"
     /\ call.result # "UnsupportedCategory") =>
    /\ (id \notin {UndefId, 0} /\ id \notin PreArtifactIds(call)) =>
         call.result = "NotFound" /\ StoreUnchanged(call)
    /\ id \in PreArtifactIds(call) => call.result = "ok" /\ Overwritten(call)
    /\ ArtifactIds # PreArtifactIds(call) => id \in {UndefId, 0}
    /\ id \in {UndefId, 0} =>
         /\ call.result = "ok"
         /\ Cardinality(ArtifactIds) = Cardinality(PreArtifactIds(call)) + 1
         /\ call.pre.artifacts \subseteq artifacts

\* C17 witness: a save naming artifact 1 has overwritten its title, kind and
\* category without adding an artifact.
C17_Witness ==
  LET call == saves[SeqCaller] IN
  /\ SaveReturned(call)
  /\ call.input.artifactId = 1
  /\ [id |-> 1, title |-> <<"t">>, kind |-> "text", category |-> "er_diagram"]
       \in call.pre.artifacts
  /\ [id |-> 1, title |-> <<"u">>, kind |-> "diagram",
      category |-> "use_case_diagram"] \in artifacts
  /\ ArtifactIds = PreArtifactIds(call)

\* ------------------------------------------------- snapshot of a save
\* Two callers save with two different contents, creating an artifact or
\* naming artifact 1; their round trips interleave.
SnapshotSaveInputs ==
  {[v EXCEPT !.artifactId = id] : v \in {ValidSave, OtherSave}, id \in {UndefId, 1}}

SnapshotStartSave(c) == \E input \in SnapshotSaveInputs : StartSave(c, input, FALSE)

NextSnapshot ==
  \E c \in Calls :
    \/ SnapshotStartSave(c)
    \/ UpsertSelect(c)
    \/ ArtUpdate(c)
    \/ ArtInsert(c)
    \/ ArtReadBack(c)
    \/ VerMax(c)
    \/ VerInsert(c)
    \/ SrcCount(c)
    \/ SrcManual(c)
    \/ SnapshotRead(c)
    \/ ReturnSave(c)

SpecSnapshot == Init /\ [][NextSnapshot]_vars

\* C18: a save naming an artifact that returns a snapshot returns the artifact,
\* the number and the content of the version row that this call inserted,
\* whatever other saves did between its version INSERT and its snapshot read.
C18_SnapshotIsOwnVersion ==
  \A c \in Calls :
    (SaveReturned(saves[c]) /\ saves[c].input.artifactId # UndefId) =>
      \E v \in artifact_versions :
        /\ v.id = saves[c].versionRow
        /\ saves[c].ret.snapshot.artifactId = v.artifact_id
        /\ saves[c].ret.snapshot.version = v.version
        /\ saves[c].ret.snapshot.content = v.content

\* ------------------------------------------------- exports of versions
\* One caller saves versions and adds exports one call at a time: content and
\* location missing, blank or padded, a version id that exists or not, a format
\* the CHECK accepts or refuses.
ExportInputs ==
  [versionId : {1, 2, MaxVersions + 1}, format : {"png", "bogus"},
   content : {UndefText, <<" ">>, <<" ", "c">>},
   location : {UndefText, <<" ", " ">>, <<"l", " ">>}]

ExportSaveInputs == {[ValidSave EXCEPT !.artifactId = id] : id \in {UndefId, 1}}

ExportStartSave == \E input \in ExportSaveInputs : StartSave(SeqCaller, input, TRUE)

ExportStartExport == \E input \in ExportInputs : StartExport(SeqCaller, input, TRUE)

NextExport ==
  \/ ExportStartSave
  \/ ExportStartExport
  \/ UpsertSelect(SeqCaller)
  \/ ArtUpdate(SeqCaller)
  \/ ArtInsert(SeqCaller)
  \/ ArtReadBack(SeqCaller)
  \/ VerMax(SeqCaller)
  \/ VerInsert(SeqCaller)
  \/ SrcCount(SeqCaller)
  \/ SrcManual(SeqCaller)
  \/ SnapshotRead(SeqCaller)
  \/ ExpSelect(SeqCaller)
  \/ ExpInsert(SeqCaller)
  \/ ExpReadBack(SeqCaller)
  \/ ReturnSave(SeqCaller)

SpecExport == Init /\ [][NextExport]_vars

ExportDone(call) == call.op = "export" /\ call.pc = "done"

BothBlank(input) == IsBlank(input.content) /\ IsBlank(input.location)

\* The stored form of a supplied text: null when missing or blank, else the
\* text without its surrounding spaces.
StoredText(text) == IF IsBlank(text) THEN NullText ELSE Trim(text)

PreVersionIds(call) == {v.id : v \in call.pre.versions}

ExportsUnchanged(call) == artifact_exports = call.pre.exports

\* The call added exactly one export row, the one it returns, holding the
\* trimmed supplied values and null for what was not supplied.
ExportStored(call) ==
  \E e \in artifact_exports :
    /\ e.id = call.ret.id
    /\ e \notin call.pre.exports
    /\ artifact_exports = call.pre.exports \cup {e}
    /\ e.artifact_version_id = call.export.versionId
    /\ e.content = StoredText(call.export.content)
    /\ e.location = StoredText(call.export.location)

\* C19: addArtifactExport with content and location both missing or blank fails
\* with a ValidationError and inserts nothing; with at least one of them
\* non-blank (an existing version, an accepted format) it succeeds and stores the
\* trimmed value and null for the other; every export row has non-null content
\* or non-null location.
C19_ExportNeedsContentOrLocation ==
  /\ \A c \in Calls :
       ExportDone(saves[c]) =>
         LET call == saves[c] IN
         /\ BothBlank(call.export) =>
              call.result = "ValidationError" /\ ExportsUnchanged(call)
         /\ ( /\ ~BothBlank(call.export)
              /\ call.export.versionId \in PreVersionIds(call)
              /\ call.export.format \in ARTIFACT_EXPORT_FORMAT_VALUES ) =>
              call.result = "ok" /\ ExportStored(call)
  /\ \A e \in artifact_exports : e.content # NullText \/ e.location # NullText

\* An export with only a padded location has succeeded and an export with
\* neither has been refused.
C19_Witness ==
  /\ \E e \in artifact_exports : e.content = NullText /\ e.location = <<"l">>
  /\ \E c \in Calls :
       /\ ExportDone(saves[c])
       /\ BothBlank(saves[c].export)
       /\ saves[c].export.content = <<" ">>
       /\ saves[c].pre.exports # {}

\* C20: addArtifactExport with content or location but a versionId that names no
\* version row fails with NotFound and inserts no export row; every export row
\* references an existing version row; with blank content and location the
\* ValidationError comes first, whatever the versionId.
C20_ExportNeedsVersion ==
  /\ \A c \in Calls :
       ExportDone(saves[c]) =>
         LET call == saves[c] IN
         /\ (~BothBlank(call.export) /\ call.export.versionId \notin PreVersionIds(call))
              => call.result = "NotFound" /\ ExportsUnchanged(call)
         /\ (BothBlank(call.export) /\ call.export.versionId \notin PreVersionIds(call))
              => call.result = "ValidationError"
  /\ \A e \in artifact_exports : e.artifact_version_id \in VersionIds

\* With versions and an export in the store, an export naming a missing version
\* has been refused.
C20_Witness ==
  \E c \in Calls :
    /\ ExportDone(saves[c])
    /\ ~BothBlank(saves[c].export)
    /\ saves[c].export.versionId \notin PreVersionIds(saves[c])
    /\ saves[c].result = "NotFound"
    /\ saves[c].pre.versions # {}
    /\ artifact_exports # {}

\* ------------------------------------------------- sources of artifacts
\* One caller creates a task, then saves artifacts one call at a time with
\* every kind of source list: absent, empty, only unusable ids, existing and
\* missing task ids, message ids, repeated ids.
MaxSourceTasks == 1

SourceTaskLists == {UndefList, <<>>, <<0, NaN>>, <<1>>, <<1, 1>>, <<1, 2>>, <<2, 3>>}

SourceMessageLists == {UndefList, <<>>, <<NaN>>, <<1>>}

SourceSaveInputs ==
  {[ValidSave EXCEPT !.artifactId = id, !.sourceTaskIds = ts, !.sourceMessageIds = ms] :
     id \in {UndefId, 1}, ts \in SourceTaskLists, ms \in SourceMessageLists}

SourceStartSave ==
  /\ BothIdle
  /\ \E input \in SourceSaveInputs : StartSave(SeqCaller, input, TRUE)

SourceStartCreate ==
  /\ BothIdle
  /\ taskSeq < MaxSourceTasks
  /\ StartCreate(SeqCaller, ValidCreate, FALSE)

NextSources ==
  \/ SourceStartSave
  \/ SourceStartCreate
  \/ CreateStep(SeqCaller)
  \/ UpsertSelect(SeqCaller)
  \/ ArtUpdate(SeqCaller)
  \/ ArtInsert(SeqCaller)
  \/ ArtReadBack(SeqCaller)
  \/ VerMax(SeqCaller)
  \/ VerInsert(SeqCaller)
  \/ SrcCheck(SeqCaller)
  \/ SrcTask(SeqCaller)
  \/ SrcMessage(SeqCaller)
  \/ SrcCount(SeqCaller)
  \/ SrcManual(SeqCaller)
  \/ SnapshotRead(SeqCaller)
  \/ ReturnSave(SeqCaller)

SpecSources == Init /\ [][NextSources]_vars

SaveDone(call) == call.op = "save" /\ call.pc = "done"

\* The save names no artifact or one that existed: it gets to its sources.
ArtifactUsable(call) ==
  call.input.artifactId = UndefId \/ call.input.artifactId \in PreArtifactIds(call)

\* The usable ids of a supplied list: finite and positive.
UsableIds(list) == {id \in ListIds(list) : id # NaN /\ id > 0}

MissingTaskIds(call) == UsableIds(call.input.sourceTaskIds) \ TaskIds

SourcesUnchanged(call) == artifact_sources = call.pre.sources

\* C21: a save whose task-id list holds the id of a task that does not exist
\* fails with a ValidationError naming exactly the missing ids, and its attach
\* inserts no source row: no task row for a valid id, no message row, no manual
\* row.
C21_MissingTaskRefusesAttach ==
  \A c \in Calls :
    (SaveDone(saves[c]) /\ ArtifactUsable(saves[c]) /\ MissingTaskIds(saves[c]) # {}) =>
      /\ saves[c].result = "ValidationError"
      /\ SeqToSet(saves[c].ret.missing) = MissingTaskIds(saves[c])
      /\ Len(saves[c].ret.missing) = Cardinality(MissingTaskIds(saves[c]))
      /\ SourcesUnchanged(saves[c])

\* Task 1 exists and a save with task ids 1 and 2 and a message id has been
\* refused.
C21_Witness ==
  \E c \in Calls :
    /\ SaveDone(saves[c])
    /\ ArtifactUsable(saves[c])
    /\ saves[c].input.sourceTaskIds = <<1, 2>>
    /\ saves[c].input.sourceMessageIds = <<1>>
    /\ 1 \in TaskIds
    /\ saves[c].ret.missing = <<2>>

ManualRows(rows, artifactId) ==
  {r \in rows : r.artifact_id = artifactId /\ r.source_type = "manual"}

NoUsableSource(call) ==
  UsableIds(call.input.sourceTaskIds) = {} /\ UsableIds(call.input.sourceMessageIds) = {}

HadSources(call) == \E r \in call.pre.sources : r.artifact_id = call.artifactId

\* The call added one row to the source table: the manual row of its artifact,
\* with a null source id and the fixed description.
OneManualAdded(call) ==
  \E r \in artifact_sources :
    /\ r \notin call.pre.sources
    /\ artifact_sources = call.pre.sources \cup {r}
    /\ r.artifact_id = call.artifactId
    /\ r.source_type = "manual"
    /\ r.source_id = NullId
    /\ r.description = ManualDescription

\* C22: a successful save without usable source ids on an artifact without
\* sources adds exactly one manual source row (null source id, fixed
\* description); on an artifact that has a source row it adds nothing; no
\* successful save adds a manual row to an artifact that had a source row; no
\* artifact has two manual rows.
C22_OneManualSource ==
  /\ \A c \in Calls :
       (SaveDone(saves[c]) /\ saves[c].result = "ok") =>
         LET call == saves[c] IN
         /\ (NoUsableSource(call) /\ ~HadSources(call)) => OneManualAdded(call)
         /\ (NoUsableSource(call) /\ HadSources(call)) => SourcesUnchanged(call)
         /\ HadSources(call) =>
              ManualRows(artifact_sources, call.artifactId)
                = ManualRows(call.pre.sources, call.artifactId)
  /\ \A a \in artifacts : Cardinality(ManualRows(artifact_sources, a.id)) <= 1

\* A second save without usable ids on an artifact that has its manual row has
\* succeeded, and another artifact has a task source and no manual row.
C22_Witness ==
  /\ \E c \in Calls :
       /\ SaveDone(saves[c])
       /\ saves[c].result = "ok"
       /\ saves[c].input.artifactId = 1
       /\ saves[c].input.sourceTaskIds = <<0, NaN>>
       /\ ManualRows(saves[c].pre.sources, 1) # {}
  /\ \E r \in artifact_sources : r.artifact_id = 2 /\ r.source_type = "task"

\* C23: when a save has completed successfully its artifact has a source row,
\* whatever source lists were supplied (absent, empty, only non-positive or
\* non-finite ids, valid ids); and no step removes a source row.
C23_SavedArtifactHasSource ==
  /\ [](\A c \in Calls :
          (SaveDone(saves[c]) /\ saves[c].result = "ok") =>
            \E r \in artifact_sources : r.artifact_id = saves[c].artifactId)
  /\ [][\A r \in artifact_sources : r \in artifact_sources']_vars

\* A save whose lists hold only non-positive and non-finite ids has succeeded
\* on a new artifact, after a save with a task id on another one.
C23_Witness ==
  /\ \E c \in Calls :
       /\ SaveDone(saves[c])
       /\ saves[c].result = "ok"
       /\ saves[c].input.artifactId = UndefId
       /\ saves[c].input.sourceTaskIds = <<0, NaN>>
       /\ saves[c].input.sourceMessageIds = <<NaN>>
       /\ saves[c].artifactId = 2
  /\ \E r \in artifact_sources : r.artifact_id = 1 /\ r.source_type = "task"

\* C24: attaching the same task id or the same message id to the same artifact
\* in successive saves leaves one source row for the (artifact, source type,
\* source id) triple: the second attach does not change the source table.
C24_ReattachIdempotent ==
  \A r1, r2 \in artifact_sources :
    ( /\ r1.source_type \in {"task", "message"}
      /\ r1.artifact_id = r2.artifact_id
      /\ r1.source_type = r2.source_type
      /\ r1.source_id = r2.source_id ) => r1 = r2

\* ------------------------------------------------- onModuleInit
\* Every awaited statement of onModuleInit, ensureTaskStatusConstraint,
\* ensureTaskCodeColumn and ensureArtifactSchema is one step; sqlite3 commits
\* each statement on its own, no statement is inside BEGIN ... COMMIT.  The
\* process can stop between any two of them and be started again.
MaxLegacyRows == 2
MaxCrashes == 1

serviceVars ==
  <<task_links, lastInsertRowid, calls, lastDeletedTop, artifacts, artifact_versions,
    artifact_sources, artifact_exports, sqlite_sequence, saves>>

LegacyStatuses ==
  {"backlog", "in_progress", "done", "Open", "Drafted", "RequiresClarification",
   "Ready", "Done"}

\* A migration that gives every row the initial status.
MigratedStatusOpen(status) == StatusOpen

\* CASE status WHEN 'backlog' THEN ... ELSE '${TaskStatus.Open}' END
MigratedStatus(status) ==
  CASE status = "backlog" -> StatusOpen
    [] status = "in_progress" -> StatusReadyForFollowUp
    [] status = "done" -> StatusDone
    [] status = "Open" -> StatusOpen
    [] status = "Drafted" -> StatusDecomposed
    [] status = "RequiresClarification" -> StatusNeedsClarification
    [] status = "Ready" -> StatusReadyForFollowUp
    [] status = "Done" -> StatusDone
    [] OTHER -> StatusOpen

\* A constraint check that never matches.
HasExpectedCheckNever(def) == FALSE

\* row?.sql?.includes(expectedCheck)
HasExpectedCheck(def) == def.exists /\ def.check = "canonical"

StoreNow == [schema |-> schema, tasks |-> tasks, tasks_old |-> tasks_old, taskSeq |-> taskSeq]

\* A stop that undoes the statements of the interrupted startup.
CrashRollsBack(now, atStart) == atStart

\* Every statement that returned is committed: a stop keeps the store as it is.
CrashKeeps(now, atStart) == now

\* code TEXT UNIQUE NOT NULL, and the unique index: no code twice (NULLs apart)
CodesUnique(rows) ==
  \A r1, r2 \in rows : (r1.code = r2.code /\ r1.code # NullText) => r1 = r2

\* SELECT id FROM tasks ORDER BY id ASC
RECURSIVE SortedIds(_)
SortedIds(ids) ==
  IF ids = {} THEN <<>>
  ELSE LET least == CHOOSE i \in ids : \A j \in ids : i <= j
       IN <<least>> \o SortedIds(ids \ {least})

BootStep(from, nextBoot, nextSchema, nextTasks, nextOld, nextSeq) ==
  /\ boot.pc = from
  /\ boot' = nextBoot
  /\ schema' = nextSchema
  /\ tasks' = nextTasks
  /\ tasks_old' = nextOld
  /\ taskSeq' = nextSeq
  /\ UNCHANGED serviceVars

BootGoto(from, to) ==
  BootStep(from, [boot EXCEPT !.pc = to], schema, tasks, tasks_old, taskSeq)

\* The process starts: onModuleInit opens a new connection (foreign_keys off).
StartProcess ==
  /\ boot.pc \in {"down", "failed"}
  /\ boot' = [boot EXCEPT !.pc = "pragma", !.foreign_keys = FALSE, !.todo = <<>>,
                          !.idx = 0, !.atStart = StoreNow]
  /\ UNCHANGED <<schema, tasks, tasks_old, taskSeq>>
  /\ UNCHANGED serviceVars

\* PRAGMA foreign_keys = ON
PragmaForeignKeys ==
  /\ boot.pc = "pragma"
  /\ BootStep("pragma", [boot EXCEPT !.pc = "messages", !.foreign_keys = TRUE],
              schema, tasks, tasks_old, taskSeq)

\* CREATE TABLE IF NOT EXISTS messages
CreateMessages ==
  /\ boot.pc = "messages"
  /\ BootStep("messages", [boot EXCEPT !.pc = "tasks"],
              [schema EXCEPT !.messages = TRUE], tasks, tasks_old, taskSeq)

\* CREATE TABLE IF NOT EXISTS tasks
CreateTasks ==
  /\ boot.pc = "tasks"
  /\ BootStep("tasks", [boot EXCEPT !.pc = "links"],
              IF schema.tasks.exists THEN schema
              ELSE [schema EXCEPT !.tasks = CanonicalTable],
              tasks, tasks_old, taskSeq)

\* CREATE TABLE IF NOT EXISTS task_links
CreateTaskLinks ==
  /\ boot.pc = "links"
  /\ BootStep("links", [boot EXCEPT !.pc = "title"],
              [schema EXCEPT !.task_links = TRUE], tasks, tasks_old, taskSeq)

\* ALTER TABLE tasks ADD COLUMN title TEXT NOT NULL DEFAULT '' with
\* .catch(() => undefined): a table that has the column is left alone.
AlterAddTitle ==
  IF schema.tasks.title
  THEN BootGoto("title", "check")
  ELSE BootStep("title", [boot EXCEPT !.pc = "check"],
                [schema EXCEPT !.tasks.title = TRUE],
                {[t EXCEPT !.title = <<>>] : t \in tasks}, tasks_old, taskSeq)

\* ensureTaskStatusConstraint: SELECT sql FROM sqlite_master ...; return when
\* the definition contains the expected CHECK.
CheckConstraint ==
  /\ boot.pc = "check"
  /\ BootGoto("check", IF HasExpectedCheck(schema.tasks) THEN "columns" ELSE "fkOff")

\* PRAGMA foreign_keys=off
FkOff ==
  /\ boot.pc = "fkOff"
  /\ BootStep("fkOff", [boot EXCEPT !.pc = "rename", !.foreign_keys = FALSE],
              schema, tasks, tasks_old, taskSeq)

\* ALTER TABLE tasks RENAME TO tasks_old: the rows, the sequence and the index
\* go with the table; it fails when there is a tasks_old.
RenameTasks ==
  IF schema.tasks_old.exists
  THEN BootGoto("rename", "failed")
  ELSE BootStep("rename", [boot EXCEPT !.pc = "create", !.before = tasks],
                [schema EXCEPT !.tasks = NoTable, !.tasks_old = schema.tasks,
                               !.index = IF schema.index = "tasks" THEN "tasks_old"
                                         ELSE schema.index],
                {}, tasks, 0)

\* CREATE TABLE tasks (...)
CreateNewTasks ==
  /\ boot.pc = "create"
  /\ BootStep("create", [boot EXCEPT !.pc = "copy"],
              [schema EXCEPT !.tasks = CanonicalTable], tasks, tasks_old, taskSeq)

CopiedRow(row) == [row EXCEPT !.status = MigratedStatus(row.status)]

\* INSERT INTO tasks (id, ..., code, created_at) SELECT ... FROM tasks_old: one
\* statement; it fails when tasks_old has no code column, a NULL code or a code
\* twice.
CopyRows ==
  IF \/ ~schema.tasks_old.code
     \/ \E r \in tasks_old : r.code = NullText
     \/ ~CodesUnique(tasks_old)
  THEN BootGoto("copy", "failed")
  ELSE BootStep("copy", [boot EXCEPT !.pc = "drop", !.migrated = TRUE],
                schema, {CopiedRow(r) : r \in tasks_old}, tasks_old,
                Max({r.id : r \in tasks_old} \cup {0}))

\* DROP TABLE tasks_old, and its index with it
DropOld ==
  /\ boot.pc = "drop"
  /\ BootStep("drop", [boot EXCEPT !.pc = "fkOn"],
              [schema EXCEPT !.tasks_old = NoTable,
                             !.index = IF schema.index = "tasks_old" THEN "none"
                                       ELSE schema.index],
              tasks, {}, taskSeq)

\* PRAGMA foreign_keys=on
FkOn ==
  /\ boot.pc = "fkOn"
  /\ BootStep("fkOn", [boot EXCEPT !.pc = "index", !.foreign_keys = TRUE],
              schema, tasks, tasks_old, taskSeq)

\* CREATE UNIQUE INDEX IF NOT EXISTS idx_tasks_code ON tasks(code): an index of
\* that name on any table makes it a no-op; duplicates make it fail.
CreateCodeIndex(from, to) ==
  IF schema.index # "none"
  THEN BootGoto(from, to)
  ELSE IF ~CodesUnique(tasks)
  THEN BootGoto(from, "failed")
  ELSE BootStep(from, [boot EXCEPT !.pc = to], [schema EXCEPT !.index = "tasks"],
                tasks, tasks_old, taskSeq)

RebuildIndex ==
  /\ boot.pc = "index"
  /\ CreateCodeIndex("index", "columns")

\* ensureTaskCodeColumn: PRAGMA table_info('tasks')
TableInfo ==
  /\ boot.pc = "columns"
  /\ BootGoto("columns", IF schema.tasks.code THEN "codeIndex" ELSE "addCode")

\* ALTER TABLE tasks ADD COLUMN code TEXT
AddCodeColumn ==
  /\ boot.pc = "addCode"
  /\ BootStep("addCode", [boot EXCEPT !.pc = "selectIds"],
              [schema EXCEPT !.tasks.code = TRUE],
              {[t EXCEPT !.code = NullText] : t \in tasks}, tasks_old, taskSeq)

\* SELECT id FROM tasks ORDER BY id ASC
SelectIds ==
  LET ids == SortedIds(TaskIds) IN
  /\ boot.pc = "selectIds"
  /\ BootStep("selectIds",
              [boot EXCEPT !.todo = ids, !.idx = 0,
                           !.pc = IF ids = <<>> THEN "codeIndex" ELSE "fillCode"],
              schema, tasks, tasks_old, taskSeq)

\* UPDATE tasks SET code = `TASK-${String(idx + 1).padStart(4, '0')}` WHERE id = ?
FillCode ==
  LET id == boot.todo[boot.idx + 1]
      idx == boot.idx + 1
  IN
  /\ boot.pc = "fillCode"
  /\ BootStep("fillCode",
              [boot EXCEPT !.idx = idx,
                           !.pc = IF idx = Len(boot.todo) THEN "codeIndex"
                                  ELSE "fillCode"],
              schema,
              {IF t.id = id THEN [t EXCEPT !.code = FormatCode(idx)] ELSE t : t \in tasks},
              tasks_old, taskSeq)

CodeIndex ==
  /\ boot.pc = "codeIndex"
  /\ CreateCodeIndex("codeIndex", "artifactTables")

\* ensureArtifactSchema: CREATE TABLE IF NOT EXISTS artifacts, artifact_versions,
\* artifact_sources, artifact_exports
ArtifactTables ==
  /\ boot.pc = "artifactTables"
  /\ BootStep("artifactTables", [boot EXCEPT !.pc = "artifactIndexes"],
              [schema EXCEPT !.artifactTables = TRUE], tasks, tasks_old, taskSeq)

\* CREATE INDEX IF NOT EXISTS idx_artifact_...; onModuleInit returns.
ArtifactIndexes ==
  /\ boot.pc = "artifactIndexes"
  /\ BootStep("artifactIndexes", [boot EXCEPT !.pc = "ready", !.readyBefore = TRUE],
              [schema EXCEPT !.artifactIndexes = TRUE], tasks, tasks_old, taskSeq)

\* onModuleDestroy closes the connection.
StopProcess ==
  /\ boot.pc = "ready"
  /\ BootStep("ready", [boot EXCEPT !.pc = "down", !.foreign_keys = FALSE],
              schema, tasks, tasks_old, taskSeq)

\* The process dies inside onModuleInit.
Crash ==
  LET kept == CrashKeeps(StoreNow, boot.atStart) IN
  /\ boot.pc \notin {"down", "failed", "ready"}
  /\ boot.crashes < MaxCrashes
  /\ boot' = [boot EXCEPT !.pc = "down", !.foreign_keys = FALSE,
                          !.crashedAt = boot.pc, !.crashes = boot.crashes + 1]
  /\ schema' = kept.schema
  /\ tasks' = kept.tasks
  /\ tasks_old' = kept.tasks_old
  /\ taskSeq' = kept.taskSeq
  /\ UNCHANGED serviceVars

\* The stores the process can find: no tasks table, the table of this code,
\* the same without the code column, the table with the five values written
\* out, tables with earlier labels (with and without the later columns), a
\* table without a CHECK.
StartTables ==
  {NoTable, CanonicalTable,
   [CanonicalTable EXCEPT !.code = FALSE],
   [CanonicalTable EXCEPT !.check = "literal"],
   [CanonicalTable EXCEPT !.check = "legacy"],
   [CanonicalTable EXCEPT !.check = "legacy", !.code = FALSE],
   [CanonicalTable EXCEPT !.check = "legacy", !.code = FALSE, !.title = FALSE],
   [CanonicalTable EXCEPT !.check = "none"]}

AllowedStatuses(def) ==
  CASE def.check \in {"canonical", "literal"} -> TASK_STATUSES
    [] def.check = "legacy" -> LegacyStatuses
    [] OTHER -> {StatusDone, "in_progress", "archived"}

StartRow(def, id, status) ==
  [id |-> id, type |-> "task",
   title |-> IF def.title THEN <<"A">> ELSE UndefText,
   description |-> <<"d">>, status |-> status,
   code |-> IF def.code THEN FormatCode(id) ELSE NullText, created_at |-> id]

StartRows(def) ==
  IF ~def.exists THEN {{}}
  ELSE {{StartRow(def, id, st[id]) : id \in ids} :
          ids \in SUBSET (1..MaxLegacyRows),
          st \in [1..MaxLegacyRows -> AllowedStatuses(def)]}

InitStore ==
  /\ \E def \in StartTables :
       /\ schema = [NoSchema EXCEPT !.tasks = def,
                                    !.index = IF def.code THEN "tasks" ELSE "none",
                                    !.messages = def.exists,
                                    !.task_links = def.exists,
                                    !.artifactTables = (def = CanonicalTable),
                                    !.artifactIndexes = (def = CanonicalTable)]
       /\ tasks \in StartRows(def)
  /\ taskSeq = Max({t.id : t \in tasks} \cup {0})
  /\ boot = [DownBoot EXCEPT !.origin = tasks]
  /\ tasks_old = {}
  /\ task_links = {}
  /\ lastInsertRowid = 0
  /\ calls = [c \in Calls |-> IdleCall]
  /\ lastDeletedTop = 0
  /\ artifacts = {}
  /\ artifact_versions = {}
  /\ artifact_sources = {}
  /\ artifact_exports = {}
  /\ sqlite_sequence = NoSequence
  /\ saves = [c \in Calls |-> IdleSave]

NextBoot ==
  \/ StartProcess
  \/ PragmaForeignKeys
  \/ CreateMessages
  \/ CreateTasks
  \/ CreateTaskLinks
  \/ AlterAddTitle
  \/ CheckConstraint
  \/ FkOff
  \/ RenameTasks
  \/ CreateNewTasks
  \/ CopyRows
  \/ DropOld
  \/ FkOn
  \/ RebuildIndex
  \/ TableInfo
  \/ AddCodeColumn
  \/ SelectIds
  \/ FillCode
  \/ CodeIndex
  \/ ArtifactTables
  \/ ArtifactIndexes
  \/ StopProcess
  \/ Crash

SpecBoot == InitStore /\ [][NextBoot]_vars

StoreTables ==
  <<schema, tasks, tasks_old, taskSeq, task_links, artifacts, artifact_versions,
    artifact_sources, artifact_exports, sqlite_sequence>>

\* The positions of ensureTaskStatusConstraint after its constraint check.
MigrationSteps == {"fkOff", "rename", "create", "copy", "drop", "fkOn", "index"}

\* C25: once onModuleInit has completed on a store, running it again does not
\* enter the status migration and changes no table, no row and no index.
C25_InitIdempotent ==
  [][boot.readyBefore =>
       (boot'.pc \notin MigrationSteps /\ UNCHANGED StoreTables)]_vars

\* A second startup has completed on the store that a first startup migrated.
C25_Witness ==
  /\ boot.pc = "ready"
  /\ boot.migrated
  /\ boot.atStart = StoreNow
  /\ boot.atStart.schema.artifactIndexes
  /\ tasks # {}

\* The remapping table of the migration.
RemapTable ==
  [st \in LegacyStatuses |->
     IF st \in {"backlog", "Open"} THEN StatusOpen
     ELSE IF st \in {"in_progress", "Ready"} THEN StatusReadyForFollowUp
     ELSE IF st \in {"done", "Done"} THEN StatusDone
     ELSE IF st = "Drafted" THEN StatusDecomposed
     ELSE StatusNeedsClarification]

Remapped(status) == IF status \in DOMAIN RemapTable THEN RemapTable[status] ELSE StatusOpen

\* The copy of this startup is done.
Copied == boot.migrated /\ boot.pc \in {"drop", "fkOn", "index", "columns", "codeIndex"}

\* C26: when the migration has copied the rows, tasks holds one row per row of
\* the old table with the same id, type, title, description, code and creation
\* time and the status that the remapping table gives the old one, the initial
\* status for a value not in the table; every status is canonical.
C26_MigrationRemapsRows ==
  Copied =>
    /\ tasks = {[r EXCEPT !.status = Remapped(r.status)] : r \in boot.before}
    /\ Cardinality(tasks) = Cardinality(boot.before)
    /\ \A t \in tasks : t.status \in TASK_STATUSES

\* Two rows have been migrated, one with a label of the table and one with a
\* value that is not in it.
C26_Witness ==
  /\ Copied
  /\ \E r \in boot.before : r.status = "in_progress"
  /\ \E r \in boot.before : r.status = "archived"
  /\ \E t \in tasks : t.status = StatusReadyForFollowUp

\* The rename is done and the copy is not.
RenamedNotRestored ==
  \/ boot.pc \in {"create", "copy"}
  \/ boot.pc = "down" /\ boot.crashedAt \in {"create", "copy"}

\* C27: the steps of the migration are committed one by one: between the rename
\* and the end of the copy, also after a stop of the process there, the task
\* rows are in tasks_old only.
C27_CrashLeavesRenamed ==
  RenamedNotRestored =>
    /\ schema.tasks_old.exists
    /\ tasks_old = boot.before
    /\ tasks = {}

\* The process has stopped before the copy with rows in tasks_old.
C27_Witness ==
  /\ boot.pc = "down"
  /\ boot.crashedAt = "copy"
  /\ Cardinality(tasks_old) = MaxLegacyRows
  /\ schema.tasks.exists

\* C28: when a startup has completed after a stop inside the migration, tasks
\* has the canonical constraint and holds every task row the store had before
\* the migration.
C28_RetryConverges ==
  (boot.pc = "ready" /\ boot.crashedAt \in MigrationSteps) =>
    /\ HasExpectedCheck(schema.tasks)
    /\ \A r \in boot.origin : \E t \in tasks : t.id = r.id

\* C29: when the migration has copied the rows, every row whose status was one
\* of the five canonical values has that status.
C29_CanonicalStatusKept ==
  Copied =>
    \A r \in boot.before :
      r.status \in TASK_STATUSES => \E t \in tasks : t.id = r.id /\ t.status = r.status

\* ------------------------------------------------- read back of a create
\* Two callers of TasksService.create, without relations or with task 1 as the
\* parent; their round trips interleave.
ReadBackPayloads == {ValidCreate, [ValidCreate EXCEPT !.parentIds = <<1>>]}

ReadBackStartCreate(c) == \E payload \in ReadBackPayloads : StartCreate(c, payload, FALSE)

NextReadBack ==
  \E c \in Calls :
    \/ ReadBackStartCreate(c)
    \/ EnsureIdsExist(c)
    \/ CreateStep(c)
    \/ RelInsertParent(c)

SpecReadBack == Init /\ [][NextReadBack]_vars

\* The row that the INSERT of the call added: the one with the code it computed.
OwnRow(call) == CHOOSE t \in tasks : t.code = FormatCode(call.next)

\* The call has read its row back.
ReadBackDone(call) == call.op = "create" /\ call.taskId # 0

\* C30: the row that createTask reads back by last_insert_rowid() is the row the
\* same call inserted, whatever other calls inserted in between; a create that
\* returns has returned that row and has attached the requested parent to it.
C30_CreateReturnsOwnRow ==
  \A c \in Calls :
    LET call == calls[c] IN
    /\ ReadBackDone(call) => call.taskId = OwnRow(call).id
    /\ (ReadBackDone(call) /\ call.pc = "done" /\ call.result = "ok") =>
         /\ call.ret.task.id = OwnRow(call).id
         /\ call.payload.parentIds = <<1>> => <<1, OwnRow(call).id>> \in Links

\* ------------------------------------------------- read back of artifact rows
\* Two callers save new artifacts (one message source) and add exports to
\* version 1; their round trips interleave.
RowidSaveInputs == {[ValidSave EXCEPT !.sourceMessageIds = <<1>>]}

RowidExportInputs == {[NoExportInput EXCEPT !.versionId = 1, !.format = "png", !.location = <<"l">>]}

RowidStartSave(c) == \E input \in RowidSaveInputs : StartSave(c, input, FALSE)

RowidStartExport(c) == \E input \in RowidExportInputs : StartExport(c, input, FALSE)

NextRowid ==
  \E c \in Calls :
    \/ RowidStartSave(c)
    \/ RowidStartExport(c)
    \/ ArtInsert(c)
    \/ ArtReadBack(c)
    \/ VerMax(c)
    \/ VerInsert(c)
    \/ SrcMessage(c)
    \/ SnapshotRead(c)
    \/ ExpSelect(c)
    \/ ExpInsert(c)
    \/ ExpReadBack(c)
    \/ ReturnSave(c)

SpecRowid == Init /\ [][NextRowid]_vars

\* C31: a save without artifactId continues with the artifact row that it
\* inserted: its version row and its source rows carry the id of that row,
\* whatever other calls inserted between its INSERT and its read by
\* last_insert_rowid(); and addArtifactExport returns the id of the export row
\* that it inserted.
C31_SaveUsesOwnArtifact ==
  \A c \in Calls :
    LET call == saves[c] IN
    /\ (call.op = "save" /\ call.artifactRow # 0 /\ call.artifactId # 0) =>
         call.artifactId = call.artifactRow
    /\ (call.op = "save" /\ call.artifactRow # 0 /\ call.versionRow # 0) =>
         \E v \in artifact_versions :
           v.id = call.versionRow /\ v.artifact_id = call.artifactRow
    /\ (call.op = "export" /\ call.pc = "done" /\ call.result = "ok") =>
         call.ret.id = call.exportRow

\* ------------------------------------------------- deletes beside creates
\* Two callers of TasksService.create (without relations or with task 1 as the
\* parent) and TasksService.delete of task 1; their round trips interleave.
DanglingStartCreate(c) == \E payload \in ReadBackPayloads : StartCreate(c, payload, FALSE)

DanglingStartDelete(c) == StartDelete(c, 1, FALSE)

NextDangling ==
  \E c \in Calls :
    \/ DanglingStartCreate(c)
    \/ DanglingStartDelete(c)
    \/ EnsureIdsExist(c)
    \/ CreateStep(c)
    \/ RelInsertParent(c)
    \/ DeleteStep(c)

SpecDangling == Init /\ [][NextDangling]_vars

\* C32: both endpoints of every edge of task_links are ids of existing tasks, in
\* every state and under every interleaving of creates, updates and deletes.
C32_NoDanglingEdge ==
  \A l \in task_links : l.parent_id \in TaskIds /\ l.child_id \in TaskIds

\* C33: a save that fails (blank content or title, unsupported category, unknown
\* artifactId, a missing source task, a version number taken) leaves the
\* artifact, version and source tables as they were before the call.
C33_FailedSaveChangesNothing ==
  \A c \in Calls :
    (SaveDone(saves[c]) /\ saves[c].result # "ok") => StoreUnchanged(saves[c])

\* C34: under every interleaving of saves on one artifact, the artifact has at
\* most one manual source row, and a manual row is inserted only while the
\* artifact has no other source row.
C34_AtMostOneManual ==
  /\ \A a \in artifacts : Cardinality(ManualRows(artifact_sources, a.id)) <= 1
  /\ [][\A r \in artifact_sources' \ artifact_sources :
          r.source_type = "manual" => SourcesOf(artifact_sources, r.artifact_id) = {}]_vars

\* ------------------------------------------------------------- listTasks
\* parentMap.get(id)?.map(byId.get) with every id kept: an id with no row gives
\* an entry built from no task.
ListResolvedAll(rows, ids) ==
  {Summary(IF \E r \in rows : r.id = id THEN CHOOSE r \in rows : r.id = id ELSE NoTask) :
     id \in ids}

\* parentMap.get(id)?.map((id) => byId.get(id)).filter(Boolean).map(summary) ?? []
ListResolved(rows, ids) == {Summary(r) : r \in {x \in rows : x.id \in ids}}

\* rows.map(...) of listTasks: each task row with the two lists that the maps
\* built from the edge rows give it.
listTasks(rows, links) ==
  {[task |-> r,
    parents |-> ListResolved(rows, {l.parent_id : l \in {k \in links : k.child_id = r.id}}),
    children |-> ListResolved(rows, {l.child_id : l \in {k \in links : k.parent_id = r.id}})] :
     r \in rows}

\* TasksService.list -> listTasks.
StartList(c) ==
  /\ Free(c)
  /\ calls' = [calls EXCEPT ![c] = [IdleCall EXCEPT !.op = "list", !.pc = "listRows"]]
  /\ UNCHANGED <<tasks, taskSeq, task_links, lastInsertRowid, lastDeletedTop>>
  /\ UNCHANGED artVars

\* SELECT * FROM tasks ORDER BY created_at DESC
ListRows(c) ==
  LET call == calls[c] IN
  /\ call.pc = "listRows"
  /\ calls' = [calls EXCEPT ![c] = [call EXCEPT !.pc = "listLinks", !.rows = tasks]]
  /\ UNCHANGED <<tasks, taskSeq, task_links, lastInsertRowid, lastDeletedTop>>
  /\ UNCHANGED artVars

\* SELECT parent_id, child_id FROM task_links, then the maps and the projection.
ListLinks(c) ==
  LET call == calls[c] IN
  /\ call.pc = "listLinks"
  /\ calls' = [calls EXCEPT ![c] =
       [Finish(call, "ok", NoReturn) EXCEPT !.list = listTasks(call.rows, task_links),
                                            !.rows = {}]]
  /\ UNCHANGED <<tasks, taskSeq, task_links, lastInsertRowid, lastDeletedTop>>
  /\ UNCHANGED artVars

\* A direct call of getTaskWithRelations(id).
StartGet(c, id) ==
  /\ Free(c)
  /\ calls' = [calls EXCEPT ![c] = [IdleCall EXCEPT !.op = "get", !.taskId = id, !.pc = "getTask"]]
  /\ UNCHANGED <<tasks, taskSeq, task_links, lastInsertRowid, lastDeletedTop>>
  /\ UNCHANGED artVars

ListStartCreate(c) == \E payload \in ReadBackPayloads : StartCreate(c, payload, FALSE)

ListStartDelete(c) == StartDelete(c, 1, FALSE)

ListStartGet(c) == \E id \in 1..2 : StartGet(c, id)

NextList ==
  \E c \in Calls :
    \/ ListStartCreate(c)
    \/ ListStartDelete(c)
    \/ ListStartGet(c)
    \/ StartList(c)
    \/ ListRows(c)
    \/ ListLinks(c)
    \/ EnsureIdsExist(c)
    \/ CreateStep(c)
    \/ RelInsertParent(c)
    \/ DeleteStep(c)

SpecList == Init /\ [][NextList]_vars

\* The outcomes of getTaskWithRelations that say the task does not exist.
NotFoundKinds == {"NotFound", "TaskNotFoundError"}

\* The entry that a list result has for the task.
ListEntry(list, id) == CHOOSE e \in list : e.task.id = id

\* C35: for every existing task, the parents and children that list() reports
\* are the summaries that getTaskWithRelations joins for it in the same state,
\* which are the existing tasks at the other end of its edges; and
\* getTaskWithRelations of an id with no row fails as not found.
C35_ListAgreesWithGet ==
  /\ [][\A c \in Calls :
          (calls[c].pc = "listLinks" /\ calls'[c].pc = "done" /\ calls[c].rows = tasks) =>
            /\ {e.task : e \in calls'[c].list} = tasks
            /\ \A t \in tasks :
                 /\ ListEntry(calls'[c].list, t.id).parents = ParentsOf(t.id)
                 /\ ListEntry(calls'[c].list, t.id).children = ChildrenOf(t.id)
                 /\ \A s \in ParentsOf(t.id) \cup ChildrenOf(t.id) : s.id \in TaskIds]_vars
  /\ [][\A c \in Calls :
          (calls[c].pc = "getTask" /\ calls'[c].pc # "getTask" /\ calls[c].taskId \notin TaskIds) =>
            calls'[c].pc = "done" /\ calls'[c].result \in NotFoundKinds]_vars

\* A list that has left out the missing parent of an edge, and a get refused
\* for an id with no row.
C35_Witness ==
  /\ \E c \in Calls :
       /\ calls[c].op = "list" /\ calls[c].pc = "done"
       /\ {e.task : e \in calls[c].list} = tasks
       /\ \E l \in task_links :
            /\ l.parent_id \notin TaskIds
            /\ l.child_id \in TaskIds
            /\ ListEntry(calls[c].list, l.child_id).parents = {}
  /\ \E c \in Calls :
       calls[c].op = "get" /\ calls[c].pc = "done" /\ calls[c].result \in NotFoundKinds

\* ------------------------------------------- lists of a half-written store
\* Two callers save and list. A save whose source task does not exist fails
\* after its version row is in; a list may run between any two statements of
\* a save.
LatestSaveInputs ==
  {[v EXCEPT !.artifactId = id] :
     v \in {ValidSave, [OtherSave EXCEPT !.sourceTaskIds = <<1>>]}, id \in {UndefId, 1}}

LatestStartSave(c) == \E input \in LatestSaveInputs : StartSave(c, input, FALSE)

LatestList(c) == ListLatestArtifacts(c, FALSE)

NextLatest ==
  \E c \in Calls :
    \/ LatestStartSave(c)
    \/ LatestList(c)
    \/ UpsertSelect(c)
    \/ ArtUpdate(c)
    \/ ArtInsert(c)
    \/ ArtReadBack(c)
    \/ VerMax(c)
    \/ VerInsert(c)
    \/ SrcCheck(c)
    \/ SrcCount(c)
    \/ SrcManual(c)
    \/ SnapshotRead(c)
    \/ ReturnSave(c)

SpecLatest == Init /\ [][NextLatest]_vars

\* The entries of a list for the artifact.
EntriesOf(list, artifactId) == {e \in list : e.artifactId = artifactId}

\* C36: in every state, also with an artifact that has no version yet or a
\* version that has no source, listLatestArtifacts returns without error one
\* snapshot for each artifact that has a version, with the artifact's title,
\* kind and category as stored now and the content of its highest version, and
\* none for an artifact without a version.
C36_ListToleratesPartialState ==
  [][\A c \in Calls :
       (saves[c].pc = "idle" /\ saves'[c].op = "list") =>
         LET list == saves'[c].ret.list IN
         /\ saves'[c].pc = "done" /\ saves'[c].result = "ok"
         /\ \A e \in list : e.artifactId \in ArtifactIds
         /\ \A a \in artifacts :
              IF VersionsOf(artifact_versions, a.id) = {}
              THEN EntriesOf(list, a.id) = {}
              ELSE /\ Cardinality(EntriesOf(list, a.id)) = 1
                   /\ \A e \in EntriesOf(list, a.id) :
                        /\ e.title = a.title
                        /\ e.kind = a.kind
                        /\ e.category = toExternalCategory(a.category)
                        /\ e.version = MaxVersion(artifact_versions, a.id)
                        /\ \E v \in VersionsOf(artifact_versions, a.id) :
                             v.version = e.version /\ v.content = e.content]_vars

\* A list taken while artifact 2 has no version yet and artifact 1 has two
\* versions and no source row: one entry, version 2 of artifact 1.
C36_Witness ==
  \E c \in Calls :
    /\ saves[c].op = "list" /\ saves[c].pc = "done"
    /\ \E a \in artifacts : VersionsOf(artifact_versions, a.id) = {}
    /\ Cardinality(VersionsOf(artifact_versions, 1)) = 2
    /\ SourcesOf(artifact_sources, 1) = {}
    /\ Cardinality(saves[c].ret.list) = 1
    /\ \E e \in saves[c].ret.list : e.artifactId = 1 /\ e.version = 2

\* ------------------------------------------------------------ categories
\* One caller saves with every accepted alias and with names that are none,
\* with and without the id of artifact 1.
CategoryInputs ==
  DOMAIN NormalizeMap \cup {Undef, "other", "ER_DIAGRAM", "Use_Case_Diagram"}
    \cup ObjectPrototypeKeys

CategorySaveInputs ==
  {[ValidSave EXCEPT !.category = category, !.artifactId = id] :
     category \in CategoryInputs, id \in {UndefId, 1}}

CategoryStartSave ==
  /\ BothIdle
  /\ \E input \in CategorySaveInputs : StartSave(SeqCaller, input, TRUE)

NextCategory ==
  \/ CategoryStartSave
  \/ UpsertSelect(SeqCaller)
  \/ ArtUpdate(SeqCaller)
  \/ ArtInsert(SeqCaller)
  \/ ArtReadBack(SeqCaller)
  \/ VerMax(SeqCaller)
  \/ VerInsert(SeqCaller)
  \/ SrcCount(SeqCaller)
  \/ SrcManual(SeqCaller)
  \/ SnapshotRead(SeqCaller)
  \/ ReturnSave(SeqCaller)

SpecCategory == Init /\ [][NextCategory]_vars

\* The values that normalizeCategory returns for its aliases.
CanonicalCategories ==
  {"use_case_diagram", "er_diagram", "user_scenario", "functional_requirement",
   "non_functional_requirement", "acceptance_criteria"}

\* The uppercase vocabulary of the snapshots.
ExternalCategories ==
  {"USE_CASE_DIAGRAM", "ENTITY_DIAGRAM", "USER_SCENARIO", "FUNCTIONAL_REQUIREMENTS",
   "NON_FUNCTIONAL_REQUIREMENTS", "ACCEPTANCE_CRITERIA"}

\* C37: normalizeCategory maps each of its 13 aliases to one canonical lowercase
\* value (entity_diagram, er_diagram and ENTITY_DIAGRAM to er_diagram) and
\* refuses every other input, so that the save fails as unsupported with no row
\* written; toExternalCategory maps each canonical value to one uppercase value;
\* external to internal to external is the identity on the six uppercase values
\* and on no lowercase alias; normalizing again after toExternalCategory
\* changes nothing.
C37_CategoryMapping ==
  /\ Cardinality(DOMAIN NormalizeMap) = 13
  /\ \A c \in DOMAIN NormalizeMap : normalizeCategory(c) \in CanonicalCategories
  /\ \A c \in {"entity_diagram", "er_diagram", "ENTITY_DIAGRAM"} :
       normalizeCategory(c) = "er_diagram"
  /\ LET call == saves[SeqCaller] IN
     (call.op = "save" /\ call.input.category \notin DOMAIN NormalizeMap) =>
       /\ normalizeCategory(call.input.category) = Undef
       /\ call.pc = "done"
       /\ call.result = "UnsupportedCategory"
       /\ StoreUnchanged(call)
  /\ \A k \in CanonicalCategories : toExternalCategory(k) \in ExternalCategories
  /\ \A e \in ExternalCategories : toExternalCategory(normalizeCategory(e)) = e
  /\ \A c \in DOMAIN NormalizeMap \ ExternalCategories :
       toExternalCategory(normalizeCategory(c)) # c
  /\ \A c \in DOMAIN NormalizeMap :
       normalizeCategory(toExternalCategory(normalizeCategory(c))) = normalizeCategory(c)

\* ------------------------------------------------- relations among tasks
\* One caller creates tasks and calls setTaskRelations, one call after the other.
FrameStartCreate ==
  /\ taskSeq < MaxFieldTasks
  /\ StartCreate(SeqCaller, ValidCreate, FALSE)

NextFrame ==
  \/ FrameStartCreate
  \/ SeqStartSetRelations
  \/ CreateStep(SeqCaller)
  \/ RelInsertParent(SeqCaller)
  \/ RelInsertChild(SeqCaller)

SpecFrame == Init /\ [][NextFrame]_vars

\* The edge rows that do not touch the task.
NotIncident(rows, taskId) == {l \in rows : l.parent_id # taskId /\ l.child_id # taskId}

\* The edge rows that leave the task.
OutgoingRows(rows, taskId) == {l \in rows : l.parent_id = taskId}

\* C38: every statement of setTaskRelations(taskId, parents, children) leaves the
\* edges that do not touch taskId and every task row as they are, and the
\* statements run for the parents list leave the outgoing edges of taskId as
\* they are.
C38_RelationsFrame ==
  [][\A c \in Calls :
       (calls[c].op = "setRelations" /\ calls[c].pc # "idle" /\ calls'[c] # calls[c]) =>
         LET id == calls[c].taskId IN
         /\ NotIncident(task_links', id) = NotIncident(task_links, id)
         /\ calls[c].pc \in {"relDelParents", "relInsParent"} =>
              OutgoingRows(task_links', id) = OutgoingRows(task_links, id)
         /\ tasks' = tasks]_vars

\* C38 witness: with the edges (2, 3) and (3, 1), parents = [2] on task 1 has
\* replaced (3, 1) by (2, 1) and left (2, 3).
C38_Witness ==
  LET call == calls[SeqCaller] IN
  /\ call.op = "setRelations" /\ call.pc = "done"
  /\ call.id = 1 /\ call.parents = <<2>> /\ call.children = UndefList
  /\ call.pre.links = {<<2, 3>>, <<3, 1>>}
  /\ Links = {<<2, 3>>, <<2, 1>>}
  /\ TaskIds = {1, 2}
  /\ tasks = call.pre.tasks

\* C39: no operation refuses or drops an edge because it closes a cycle: an
\* update of an existing task with valid fields and lists of existing ids
\* succeeds and leaves exactly the listed edges in each supplied direction, so
\* naming one task in parentIds and childIds leaves the edges (a, b) and (b, a).
C39_CyclesAccepted ==
  LET call == calls[SeqCaller] IN
  (/\ call.op = "update"
   /\ call.pc = "done"
   /\ call.fields # NoFields
   /\ (call.parents # UndefList \/ call.children # UndefList)
   /\ call.id \in PreTaskIds(call)
   /\ ListIds(call.parents) \cup ListIds(call.children) \subseteq PreTaskIds(call)) =>
     /\ call.result = "ok"
     /\ call.parents # UndefList =>
          Incoming(Links, call.id) = {<<p, call.id>> : p \in ListIds(call.parents) \ {call.id}}
     /\ call.children # UndefList =>
          Outgoing(Links, call.id) = {<<call.id, ch>> : ch \in ListIds(call.children) \ {call.id}}
     /\ \A b \in (ListIds(call.parents) \cap ListIds(call.children)) \ {call.id} :
          <<b, call.id>> \in Links /\ <<call.id, b>> \in Links

\* C39 witness: tasks 1, 2 and 3 exist; the edges (1, 2) and (2, 1) were both
\* there before the update, which has closed the cycle 1 -> 2 -> 3 -> 1.
C39_Witness ==
  LET call == calls[SeqCaller] IN
  /\ call.op = "update" /\ call.pc = "done" /\ call.result = "ok"
  /\ TaskIds = {1, 2, 3}
  /\ {<<1, 2>>, <<2, 1>>} \subseteq call.pre.links
  /\ Links = {<<1, 2>>, <<2, 3>>, <<3, 1>>}

====
